---- MODULE Spec2Model ----
(***************************************************************************)
(* Multi-agent motion coordination on a 2D grid: the transformation        *)
(* orchestrator of app/controllers/simulation.py (centralized and          *)
(* independent control), its deadlock helpers, and the adversarial search  *)
(* engine of app/algorithms/minimax.py and expectimax.py.                  *)
(*                                                                         *)
(* Coordinates are <<x, y>>; y grows downward, so an "upward" move has a   *)
(* smaller y.  Grid, Element, ElementController and the A* pathfinder are  *)
(* not part of the source tree; they are modelled from the specification   *)
(* (sections 3, 4.1, 4.2 and 6).                                           *)
(***************************************************************************)
EXTENDS Integers, Sequences, FiniteSets, TLC

VARIABLES
    grid,                        \* Grid: width, height, cell array
    elements,                    \* controller.elements: id -> Element
    target_positions,            \* controller.target_positions
    algorithm, topology, movement, control_mode,   \* arguments of transform()
    pc,                          \* position of the transform() call
    current_step,                \* independent loop: tick counter
    reached_targets,             \* independent loop: ids seen at their target
    stuck_counter,               \* independent loop: id -> ticks stuck (0 = absent)
    position_history,            \* independent loop: id -> recent positions (<<>> = absent)
    blocked_elements,            \* independent loop: set of blocked ids
    global_no_movement_counter,  \* independent loop: consecutive ticks without planned moves
    paths,                       \* centralized: id -> planned path (<<>> = none)
    todo,                        \* centralized: elements still to plan, in sorted order
    step,                        \* centralized parallel: round number
    round_moves,                 \* moves appended to total_moves by the last step
    n_moves,                     \* len(total_moves), saturating at MaxMoveCount
    attempts,                    \* grid.move_element calls of the last step, with outcome
    trace,                       \* what the last step invoked (helpers, decisions)
    result,                      \* the dictionary transform() returns
    search                       \* adversarial search: call arguments and outcome

vars == << grid, elements, target_positions, algorithm, topology, movement, control_mode, pc,
           current_step, reached_targets, stuck_counter, position_history,
           blocked_elements, global_no_movement_counter, paths, todo, step,
           round_moves, n_moves, attempts, trace, result, search >>

-----------------------------------------------------------------------------
(* Bounds of the model *)

MaxElements == 2          \* most elements placed by initialize_elements
MaxMoveCount == 3         \* n_moves saturates here
GridSizes == { <<4, 3>>, <<5, 3>>, <<4, 4>> }   \* (width, height) of the grids explored

(* Program constants *)

max_steps == 500
max_no_movement_threshold == 15
boundary_size == 1

-----------------------------------------------------------------------------
(* Small helpers *)

Abs(n) == IF n < 0 THEN -n ELSE n
Min2(a, b) == IF a < b THEN a ELSE b
Max2(a, b) == IF a > b THEN a ELSE b
Manhattan(p, q) == Abs(p[1] - q[1]) + Abs(p[2] - q[2])
Range(s) == { s[i] : i \in 1..Len(s) }
Last(s) == s[Len(s)]
Tail_n(s, n) == IF Len(s) <= n THEN s ELSE SubSeq(s, Len(s) - n + 1, Len(s))

\* lexicographic "strictly less" on integer tuples of equal length
RECURSIVE LexLess(_, _)
LexLess(a, b) ==
    IF Len(a) = 0 THEN FALSE
    ELSE IF a[1] # b[1] THEN a[1] < b[1]
    ELSE LexLess(Tail(a), Tail(b))

\* Python's stable sort of records by their field "key" (an integer tuple):
\* x goes after every element whose key is <= the key of x
RECURSIVE InsertSorted(_, _)
InsertSorted(s, x) ==
    IF Len(s) = 0 THEN << x >>
    ELSE IF LexLess(x.key, s[1].key) THEN << x >> \o s
    ELSE << s[1] >> \o InsertSorted(Tail(s), x)

RECURSIVE SortByKey(_)
SortByKey(s) ==
    IF Len(s) = 0 THEN << >>
    ELSE InsertSorted(SortByKey(SubSeq(s, 1, Len(s) - 1)), s[Len(s)])

\* the ids of a set in ascending order (dict insertion order of controller.elements)
RECURSIVE SetToSeq(_)
SetToSeq(S) ==
    IF S = {} THEN << >>
    ELSE LET m == CHOOSE a \in S : \A b \in S : a <= b
         IN << m >> \o SetToSeq(S \ {m})

-----------------------------------------------------------------------------
(* Grid (modelled from the specification, sections 3 and 4.1) *)

WALL == -1
EMPTY == -2

Positions(w, h) == (0..(w - 1)) \X (0..(h - 1))

\* Grid(width, height): a wall ring of boundary_size around an empty interior
NewGrid(w, h) ==
    [ width |-> w, height |-> h,
      cell |-> [ p \in Positions(w, h) |->
                   IF \/ p[1] < boundary_size \/ p[1] >= w - boundary_size
                      \/ p[2] < boundary_size \/ p[2] >= h - boundary_size
                   THEN WALL ELSE EMPTY ] ]

is_valid_position(g, x, y) == x >= 0 /\ x < g.width /\ y >= 0 /\ y < g.height
is_wall(g, x, y) == is_valid_position(g, x, y) /\ g.cell[<<x, y>>] = WALL
is_element(g, x, y) == is_valid_position(g, x, y) /\ g.cell[<<x, y>>] >= 0
is_empty(g, x, y) == is_valid_position(g, x, y) /\ g.cell[<<x, y>>] = EMPTY
\* Cell = Empty | Wall | Occupied(id): occupied means "holds an element"
is_occupied(g, x, y) == is_element(g, x, y)

VonNeumannDirs == { <<0, -1>>, <<1, 0>>, <<0, 1>>, <<-1, 0>> }
MooreDirs == VonNeumannDirs \cup { <<1, -1>>, <<1, 1>>, <<-1, 1>>, <<-1, -1>> }
Dirs(topo) == IF topo = "vonNeumann" THEN VonNeumannDirs ELSE MooreDirs

\* neighbors(x, y, topology): the in-bounds cells only
get_neighbors(g, x, y, topo) ==
    { <<x + d[1], y + d[2]>> : d \in Dirs(topo) } \cap Positions(g.width, g.height)

\* cells an element may step to: neither wall nor element
FreeNeighbors(g, x, y, topo) ==
    { n \in get_neighbors(g, x, y, topo) :
        ~is_wall(g, n[1], n[2]) /\ ~is_element(g, n[1], n[2]) }

\* grid.add_element / grid.remove_element: write only the element's own cell
add_element(g, e, id) == [ g EXCEPT !.cell[<<e.x, e.y>>] = id ]
remove_element(g, e) == [ g EXCEPT !.cell[<<e.x, e.y>>] = EMPTY ]

\* a move that writes the cell array and leaves the element's position behind
move_element_cells_only(g, els, id, x, y) ==
    IF \/ ~is_valid_position(g, x, y)
       \/ g.cell[<<x, y>>] # EMPTY
    THEN [ ok |-> FALSE, g |-> g, e |-> els ]
    ELSE [ ok |-> TRUE,
           g |-> [ g EXCEPT !.cell[<<els[id].x, els[id].y>>] = EMPTY,
                            !.cell[<<x, y>>] = id ],
           e |-> els ]

\* move(id, x, y) -> bool: fails without mutation if the destination is out of
\* bounds, a wall or occupied; otherwise updates cell array and element together
move_element(g, els, id, x, y) ==
    IF \/ ~is_valid_position(g, x, y)
       \/ g.cell[<<x, y>>] # EMPTY
    THEN [ ok |-> FALSE, g |-> g, e |-> els ]
    ELSE [ ok |-> TRUE,
           g |-> [ g EXCEPT !.cell[<<els[id].x, els[id].y>>] = EMPTY,
                            !.cell[<<x, y>>] = id ],
           e |-> [ els EXCEPT ![id].x = x, ![id].y = y ] ]

(* Element (modelled from the specification, section 3) *)

Pos(e) == << e.x, e.y >>
Target(e) == << e.target_x, e.target_y >>
has_target(e) == e.has_target
distance_to_target(e) == Manhattan(Pos(e), Target(e))
AtTarget(e) == has_target(e) /\ e.x = e.target_x /\ e.y = e.target_y
Ids(els) == DOMAIN els

-----------------------------------------------------------------------------
(* Baseline pathfinder (modelled from the specification, section 4.2) *)

NoPath == << >>                 \* Python's None for a path
NoPos == << -1, -1 >>           \* Python's None for a position

\* breadth-first distances to the goal over cells that are neither wall nor element
RECURSIVE BfsDist(_, _, _, _, _)
BfsDist(g, topo, frontier, dist, d) ==
    IF frontier = {} THEN dist
    ELSE LET next == { n \in UNION { FreeNeighbors(g, p[1], p[2], topo) : p \in frontier } :
                         n \notin DOMAIN dist }
         IN BfsDist(g, topo, next, dist @@ [ n \in next |-> d + 1 ], d + 1)

DistTo(g, topo, goal) == BfsDist(g, topo, {goal}, [ p \in {goal} |-> 0 ], 0)

RECURSIVE PathsFrom(_, _, _, _)
PathsFrom(g, topo, dist, p) ==
    IF dist[p] = 0 THEN { << p >> }
    ELSE UNION { { << p >> \o q : q \in PathsFrom(g, topo, dist, n) } :
                 n \in { m \in FreeNeighbors(g, p[1], p[2], topo) :
                           m \in DOMAIN dist /\ dist[m] = dist[p] - 1 } }

\* the paths the pathfinder may return: NoPath if start or goal is invalid, a wall or
\* unreachable, the one-cell path if start = goal, otherwise a shortest path
astar_pathfind(g, start, goal, topo) ==
    IF \/ ~is_valid_position(g, start[1], start[2])
       \/ ~is_valid_position(g, goal[1], goal[2])
       \/ is_wall(g, start[1], start[2]) \/ is_wall(g, goal[1], goal[2])
    THEN { NoPath }
    ELSE IF start = goal THEN { << start >> }
    ELSE IF is_element(g, goal[1], goal[2]) THEN { NoPath }
    ELSE LET dist == DistTo(g, topo, goal)
         IN IF start \in DOMAIN dist THEN PathsFrom(g, topo, dist, start)
            ELSE { NoPath }

KnownAlgorithms == { "astar", "bfs", "greedy" }

\* ProgrammableMatterSimulation.find_path: the set of results it may return
find_path(g, start, goal, alg, topo) ==
    IF start # goal /\ is_element(g, goal[1], goal[2]) THEN { NoPath }
    ELSE IF alg \in KnownAlgorithms THEN astar_pathfind(g, start, goal, topo)
    ELSE { NoPath }              \* ValueError raised and caught: (None, 0)

\* a planning step that forgets to put the element back on the grid
PlanWithoutPuttingBack(g, els, id, alg, topo) ==
    [ g |-> remove_element(g, els[id]),
      paths |-> find_path(remove_element(g, els[id]), Pos(els[id]), Target(els[id]),
                          alg, topo) ]

\* lines 662-672 and 175-185: the element is taken off the grid for the search and
\* put back; yields the grid afterwards and the possible path results
PlanWithElementRemoved(g, els, id, alg, topo) ==
    LET e == els[id]
        g1 == remove_element(g, e)
    IN [ g |-> add_element(g1, e, id),
         paths |-> find_path(g1, Pos(e), Target(e), alg, topo) ]

-----------------------------------------------------------------------------
(* set-up: initialize_elements, set_target_shape, assign_targets *)

\* initialize_elements: rows from the bottom, left to right
initialize_elements(w, h, n) ==
    LET safe_width == w - 2 * boundary_size
        at(k) == << boundary_size + (k % safe_width),
                    h - (boundary_size + 1 + (k \div safe_width)) >>
        els == [ k \in 0..(n - 1) |->
                   [ x |-> at(k)[1], y |-> at(k)[2],
                     target_x |-> -1, target_y |-> -1, has_target |-> FALSE ] ]
        g0 == NewGrid(w, h)
    IN [ e |-> els,
         g |-> [ g0 EXCEPT !.cell = [ p \in Positions(w, h) |->
                    IF \E k \in 0..(n - 1) : at(k) = p
                    THEN CHOOSE k \in 0..(n - 1) : at(k) = p
                    ELSE g0.cell[p] ] ] ]

\* set_target_shape: keeps the candidate cells that are in the grid and not walls
set_target_shape(g, candidates) ==
    { c \in candidates : is_valid_position(g, c[1], c[2]) /\ ~is_wall(g, c[1], c[2]) }

\* controller.assign_targets (specification, section 6): an injective mapping of
\* target cells to elements; every target is used when there are enough elements
assign_targets(els, targets) ==
    LET k == Min2(Cardinality(targets), Cardinality(DOMAIN els))
        choices == { f \in [ DOMAIN els -> targets \cup {NoPos} ] :
                       /\ \A i, j \in DOMAIN els : (i # j /\ f[i] # NoPos) => f[i] # f[j]
                       /\ Cardinality({ i \in DOMAIN els : f[i] # NoPos }) = k }
    IN { [ i \in DOMAIN els |->
             IF f[i] = NoPos
             THEN [ els[i] EXCEPT !.has_target = FALSE, !.target_x = -1, !.target_y = -1 ]
             ELSE [ els[i] EXCEPT !.has_target = TRUE,
                                  !.target_x = f[i][1], !.target_y = f[i][2] ] ] :
         f \in choices }

\* the target cells the elements currently hold
AssignedTargets(els) == { Target(els[i]) : i \in { j \in DOMAIN els : has_target(els[j]) } }

-----------------------------------------------------------------------------
(* _transform_independent: one element's decision in a tick (lines 539-750) *)

deadlock_threshold(topo) == IF topo = "vonNeumann" THEN 4 ELSE 5
stuck_threshold(topo) == IF topo = "vonNeumann" THEN 8 ELSE 10
history_length == 8
still_blocked_above == 5

\* lines 556-572: history and stuck counter of an element standing at cur
UpdateHistory(hist, stuck, cur) ==
    IF hist = << >> THEN [ hist |-> << cur >>, stuck |-> stuck ]
    ELSE IF Last(hist) # cur
         THEN [ hist |-> Tail_n(Append(hist, cur), history_length), stuck |-> 0 ]
         ELSE [ hist |-> Tail_n(hist, history_length), stuck |-> stuck + 1 ]

\* lines 574-602: pattern length of the detected deadlock, 0 if none
PatternLength(positions, topo) ==
    LET n == Len(positions)
        oscillating ==
            /\ Cardinality(Range(Tail_n(positions, 4))) <= 2
            /\ positions[n - 3] = positions[n - 1]
            /\ positions[n - 2] = positions[n]
        cycle4 == n >= 8 /\ SubSeq(positions, n - 3, n) = SubSeq(positions, n - 7, n - 4)
        last3 == Tail_n(positions, 3)
        in_line ==
            /\ topo = "vonNeumann"
            /\ Cardinality(Range(last3)) <= 2
            /\ \/ \A i \in 1..Len(last3) : last3[i][1] = positions[n][1]
               \/ \A i \in 1..Len(last3) : last3[i][2] = positions[n][2]
    IN IF n < 4 THEN 0
       ELSE IF cycle4 THEN 4
       ELSE IF oscillating THEN 2
       ELSE IF in_line THEN 2
       ELSE 0

\* lines 686-742, scores doubled to stay in the integers: the neighbours with the
\* best score if that score is positive or the element is stuck, else none
HeuristicScore2(g, e, n, hist, topo) ==
    LET is_diagonal == topo = "moore" /\ Abs(n[1] - e.x) = 1 /\ Abs(n[2] - e.y) = 1
        new_distance == Manhattan(n, Target(e))
        distance_improvement == distance_to_target(e) - new_distance
        dx == e.target_x - e.x
        dy == e.target_y - e.y
        move_dx == n[1] - e.x
        move_dy == n[2] - e.y
        bonus == IF topo # "vonNeumann" THEN 0
                 ELSE IF Abs(dx) > Abs(dy) /\ move_dx # 0 THEN 1
                 ELSE IF Abs(dy) > Abs(dx) /\ move_dy # 0 THEN 1
                 ELSE 0
        direction_alignment2 == 2 * (dx * move_dx + dy * move_dy) + bonus
        free_future_neighbors == Cardinality(FreeNeighbors(g, n[1], n[2], topo))
        recent_penalty2 == IF n \in Range(Tail_n(hist, 3)) THEN -10 ELSE 0
        diagonal_penalty2 == IF is_diagonal THEN -1 ELSE 0
        distance_weight2 == IF topo = "vonNeumann" THEN 5 ELSE 8
        direction_weight == IF topo = "vonNeumann" THEN 3 ELSE 2
    IN distance_improvement * distance_weight2 + direction_alignment2 * direction_weight
       + free_future_neighbors + recent_penalty2 + diagonal_penalty2

HeuristicMove(g, e, valid_neighbors, hist, stuck, topo) ==
    LET best == { n \in valid_neighbors :
                    \A m \in valid_neighbors :
                       HeuristicScore2(g, e, m, hist, topo) <= HeuristicScore2(g, e, n, hist, topo) }
        best_score2 == HeuristicScore2(g, e, CHOOSE n \in best : TRUE, hist, topo)
    IN IF best_score2 > 0 \/ stuck >= 3 THEN best ELSE { NoPos }

\* lines 625-657: where a deadlocked or stuck element may escape to
EscapeMoves(valid_neighbors, hist, pattern_length) ==
    LET recent_positions == IF pattern_length > 0
                            THEN Range(Tail_n(hist, pattern_length * 2)) ELSE {}
        escape_neighbors == valid_neighbors \ recent_positions
    IN IF escape_neighbors # {} THEN escape_neighbors ELSE valid_neighbors

\* lines 659-742: first step of the planned path, else the heuristic move
PlannedMoves(g, els, id, valid_neighbors, hist, stuck, alg, topo) ==
    LET found == { q \in PlanWithElementRemoved(g, els, id, alg, topo).paths : Len(q) > 1 }
    IN IF found # {} THEN { q[2] : q \in found }
       ELSE HeuristicMove(g, els[id], valid_neighbors, hist, stuck, topo)

\* one element's turn: what it learns about itself and the cells it may plan to
\* move to (NoPos: it plans no move); kind tells which branch decided
ElementDecision(g, els, id, reached, hist, stuck, alg, topo) ==
    LET e == els[id]
        upd == UpdateHistory(hist, stuck, Pos(e))
        pl == PatternLength(upd.hist, topo)
        valid_neighbors == FreeNeighbors(g, e.x, e.y, topo)
        blocked_now == upd.stuck > stuck_threshold(topo)
    IN IF ~has_target(e) \/ id \in reached
       THEN [ kind |-> "skip", reached |-> FALSE, hist |-> hist, stuck |-> stuck,
              blocked |-> FALSE, opts |-> { NoPos }, g |-> g ]
       ELSE IF AtTarget(e)
       THEN [ kind |-> "reached", reached |-> TRUE, hist |-> << >>, stuck |-> 0,
              blocked |-> FALSE, opts |-> { NoPos }, g |-> g ]
       ELSE IF valid_neighbors = {}
       THEN [ kind |-> "surrounded", reached |-> FALSE, hist |-> upd.hist,
              stuck |-> upd.stuck, blocked |-> blocked_now, opts |-> { NoPos }, g |-> g ]
       ELSE IF pl > 0 \/ upd.stuck >= deadlock_threshold(topo)
       THEN [ kind |-> "escape", reached |-> FALSE, hist |-> upd.hist,
              stuck |-> upd.stuck, blocked |-> blocked_now,
              opts |-> EscapeMoves(valid_neighbors, upd.hist, pl), g |-> g ]
       ELSE [ kind |-> "plan", reached |-> FALSE, hist |-> upd.hist,
              stuck |-> upd.stuck, blocked |-> blocked_now,
              opts |-> PlannedMoves(g, els, id, valid_neighbors, upd.hist, upd.stuck, alg, topo),
              g |-> PlanWithElementRemoved(g, els, id, alg, topo).g ]

RECURSIVE DecideAll(_, _, _, _, _, _, _, _)
DecideAll(g, els, ids, reached, hist, stuck, alg, topo) ==
    IF ids = << >> THEN << >>
    ELSE LET d == ElementDecision(g, els, ids[1], reached, hist[ids[1]], stuck[ids[1]], alg, topo)
         IN << d >> \o DecideAll(d.g, els, Tail(ids), reached, hist, stuck, alg, topo)

\* every way the random draws of a tick can fall: one option per element
RECURSIVE Choices(_)
Choices(ds) ==
    IF ds = << >> THEN { << >> }
    ELSE { << o >> \o rest : o \in ds[1].opts, rest \in Choices(Tail(ds)) }

-----------------------------------------------------------------------------
(* _transform_independent: conflict resolution and commit (lines 752-920) *)

Between(a, b, v) == Min2(a, b) <= v /\ v <= Max2(a, b)

\* lines 758-781: unsettled elements standing in another unsettled element's way
BlockingElements(els, reached, topo) ==
    { i \in DOMAIN els :
        /\ has_target(els[i]) /\ i \notin reached
        /\ \E o \in DOMAIN els :
             /\ o # i /\ has_target(els[o]) /\ o \notin reached
             /\ IF topo = "vonNeumann"
                THEN \/ /\ els[i].x = els[o].target_x
                        /\ Between(els[o].y, els[o].target_y, els[i].y)
                     \/ /\ els[i].y = els[o].target_y
                        /\ Between(els[o].x, els[o].target_x, els[i].x)
                ELSE /\ Between(els[o].x, els[o].target_x, els[i].x)
                     /\ Between(els[o].y, els[o].target_y, els[i].y) }

\* a reservation that lets every move through
KeepEveryMove(moves, taken) == moves

\* first-come reservation: a move is kept unless an earlier one took its cell
RECURSIVE KeepFirstPerCell(_, _)
KeepFirstPerCell(moves, taken) ==
    IF moves = << >> THEN << >>
    ELSE IF moves[1].to \in taken THEN KeepFirstPerCell(Tail(moves), taken)
    ELSE << moves[1] >> \o KeepFirstPerCell(Tail(moves), taken \cup { moves[1].to })

\* lines 752-814 (parallel movement): priority order, then one move per cell
ParallelConflictResolution(g, els, moves, stuck, blocked, reached, topo) ==
    LET blocking == BlockingElements(els, reached, topo)
        keyed == [ k \in 1..Len(moves) |->
                     LET e == els[moves[k].id]
                     IN [ id |-> moves[k].id, to |-> moves[k].to,
                          key |-> << IF /\ topo = "vonNeumann"
                                        /\ Cardinality(FreeNeighbors(g, e.x, e.y, topo)) <= 2
                                     THEN 0 ELSE 1,
                                     -(stuck[moves[k].id] * 2),
                                     distance_to_target(e),
                                     IF moves[k].id \in blocked THEN 0 ELSE 1,
                                     IF moves[k].id \in blocking THEN 0 ELSE 1 >> ] ]
        sorted == SortByKey(keyed)
    IN KeepFirstPerCell([ k \in 1..Len(sorted) |-> [ id |-> sorted[k].id, to |-> sorted[k].to ] ], {})

\* lines 876-880: moves landing on the mover's own target first, then nearer ones
GoalFirstOrder(els, moves) ==
    LET keyed == [ k \in 1..Len(moves) |->
                     [ id |-> moves[k].id, to |-> moves[k].to,
                       key |-> << IF moves[k].to = Target(els[moves[k].id]) THEN 0 ELSE 1,
                                  distance_to_target(els[moves[k].id]) >> ] ]
        sorted == SortByKey(keyed)
    IN [ k \in 1..Len(sorted) |-> [ id |-> sorted[k].id, to |-> sorted[k].to ] ]

\* lines 883-894: the reservation map
ReserveMoves(moves) == KeepFirstPerCell(moves, {})

\* invariant I1 on a grid and the elements it holds: every element stands on the
\* one cell marked with its id, and every marked cell is some element's position
I1(g, els) ==
    /\ \A i \in DOMAIN els :
         /\ is_valid_position(g, els[i].x, els[i].y)
         /\ g.cell[Pos(els[i])] = i
    /\ \A p \in DOMAIN g.cell :
         g.cell[p] >= 0 => g.cell[p] \in DOMAIN els /\ Pos(els[g.cell[p]]) = p

\* one call of grid.move_element with the usual bookkeeping around it: the move
\* is appended to total_moves only if the call succeeded
TryMove(g, els, id, to) ==
    LET old_pos == Pos(els[id])
        r == move_element(g, els, id, to[1], to[2])
    IN [ ok |-> r.ok, g |-> r.g, e |-> r.e,
         log |-> IF r.ok THEN << [ agentId |-> id, from |-> old_pos, to |-> to ] >> ELSE << >>,
         attempts |-> << [ id |-> id, from |-> old_pos, to |-> to, ok |-> r.ok,
                           dest |-> IF is_valid_position(g, to[1], to[2])
                                    THEN g.cell[to] ELSE WALL,
                           moved |-> /\ Pos(r.e[id]) = to /\ r.g.cell[to] = id
                                     /\ (to # old_pos => r.g.cell[old_pos] = EMPTY),
                           kept |-> r.e = els /\ r.g = g,
                           i1 |-> I1(r.g, r.e) ] >> ]

\* lines 896-920: the reserved moves are tried in order
RECURSIVE ExecuteMoves(_, _, _)
ExecuteMoves(g, els, moves) ==
    IF moves = << >>
    THEN [ g |-> g, e |-> els, log |-> << >>, attempts |-> << >> ]
    ELSE LET r == TryMove(g, els, moves[1].id, moves[1].to)
             rest == ExecuteMoves(r.g, r.e, Tail(moves))
         IN [ g |-> rest.g, e |-> rest.e,
              log |-> r.log \o rest.log, attempts |-> r.attempts \o rest.attempts ]

\* lines 861-874: after movement, only elements stuck for more than 5 ticks stay blocked
StillBlocked(els, blocked, stuck) ==
    LET still_blocked == { i \in blocked :
                             i \in DOMAIN els /\ has_target(els[i])
                             /\ stuck[i] > still_blocked_above }
    IN IF Cardinality(still_blocked) < Cardinality(blocked) THEN still_blocked ELSE blocked

-----------------------------------------------------------------------------
(* deadlock helpers *)

NoChange(g, els) == [ ok |-> FALSE, g |-> g, e |-> els, log |-> << >>, attempts |-> << >> ]

\* the elements of a set that maximise an integer measure
ArgMax(S, f(_)) == { a \in S : \A b \in S : f(b) <= f(a) }

\* _swap_targets_for_blocked_elements: the first pair (blocked, other), in
\* iteration order, whose exchange lowers the sum of the two distances gets its
\* targets exchanged
\* a test that also lets through a swap that leaves the sum of distances as it is
SwapNotWorse(els, b, o) ==
    Manhattan(Pos(els[b]), Target(els[o])) + Manhattan(Pos(els[o]), Target(els[b]))
      <= distance_to_target(els[b]) + distance_to_target(els[o])

SwapImproves(els, b, o) ==
    Manhattan(Pos(els[b]), Target(els[o])) + Manhattan(Pos(els[o]), Target(els[b]))
      < distance_to_target(els[b]) + distance_to_target(els[o])

SwapPairs(els, blocked) ==
    LET blocked_element_objects == { i \in blocked : i \in DOMAIN els /\ has_target(els[i]) }
        other_elements == { i \in DOMAIN els :
                              i \notin blocked /\ has_target(els[i]) /\ ~AtTarget(els[i]) }
    IN { p \in blocked_element_objects \X other_elements : SwapImproves(els, p[1], p[2]) }

\* a swap that gives the blocked element the other's target and leaves the
\* other element's target as it was
swap_copying_one_target(els, blocked) ==
    LET good == SwapPairs(els, blocked)
        p == CHOOSE a \in good : \A c \in good : a[1] < c[1] \/ (a[1] = c[1] /\ a[2] <= c[2])
    IN IF good = {} THEN [ ok |-> FALSE, e |-> els ]
       ELSE [ ok |-> TRUE,
              e |-> [ els EXCEPT ![p[1]].target_x = els[p[2]].target_x,
                                 ![p[1]].target_y = els[p[2]].target_y ] ]

swap_targets_for_blocked_elements(els, blocked) ==
    LET good == SwapPairs(els, blocked)
        p == CHOOSE a \in good : \A c \in good : a[1] < c[1] \/ (a[1] = c[1] /\ a[2] <= c[2])
    IN IF good = {} THEN [ ok |-> FALSE, e |-> els ]
       ELSE [ ok |-> TRUE,
              e |-> [ i \in DOMAIN els |->
                        IF i = p[1]
                        THEN [ els[i] EXCEPT !.target_x = els[p[2]].target_x,
                                             !.target_y = els[p[2]].target_y ]
                        ELSE IF i = p[2]
                        THEN [ els[i] EXCEPT !.target_x = els[p[1]].target_x,
                                             !.target_y = els[p[1]].target_y ]
                        ELSE els[i] ] ]

\* elements that have a target and are not on it, in dictionary order
ActiveElements(els) == SetToSeq({ i \in DOMAIN els : has_target(els[i]) /\ ~AtTarget(els[i]) })

\* a blocking graph that leaves out the elements standing on another's target
BlockingGraphPathsOnly(els, active) ==
    [ i \in Range(active) |->
        LET blocks(o) ==
              /\ Pos(els[i]) # Target(els[o])
              /\ \/ /\ els[i].x = els[o].x
                    /\ Between(els[o].y, els[o].target_y, els[i].y)
                 \/ /\ els[i].y = els[o].y
                    /\ Between(els[o].x, els[o].target_x, els[i].x)
            sel == { k \in 1..Len(active) : active[k] # i /\ blocks(active[k]) }
        IN [ k \in 1..Cardinality(sel) |->
               active[CHOOSE a \in sel : Cardinality({ c \in sel : c < a }) = k - 1] ] ]

\* _detect_movement_cycles, lines 1331-1353: element -> the others it blocks
BlockingGraph(els, active) ==
    [ i \in Range(active) |->
        LET blocks(o) ==
              \/ Pos(els[i]) = Target(els[o])
              \/ /\ els[i].x = els[o].x
                 /\ Between(els[o].y, els[o].target_y, els[i].y)
              \/ /\ els[i].y = els[o].y
                 /\ Between(els[o].x, els[o].target_x, els[i].x)
            sel == { k \in 1..Len(active) : active[k] # i /\ blocks(active[k]) }
        IN [ k \in 1..Cardinality(sel) |->
               active[CHOOSE a \in sel : Cardinality({ c \in sel : c < a }) = k - 1] ] ]

IndexOf(s, v) == CHOOSE k \in 1..Len(s) : s[k] = v /\ \A j \in 1..(k - 1) : s[j] # v

\* lines 1359-1381: depth-first search sharing visited, rec_stack and cycles
RECURSIVE find_cycles_from(_, _, _, _)
RECURSIVE VisitNeighbors(_, _, _, _)
find_cycles_from(graph, node, path, st) ==
    IF node \in st.rec_stack
    THEN [ st EXCEPT !.cycles =
             Append(@, SubSeq(path, IndexOf(path, node), Len(path)) \o << node >>) ]
    ELSE IF node \in st.visited THEN st
    ELSE LET st1 == [ st EXCEPT !.visited = @ \cup { node }, !.rec_stack = @ \cup { node } ]
             st2 == VisitNeighbors(graph, graph[node], Append(path, node), st1)
         IN [ st2 EXCEPT !.rec_stack = @ \ { node } ]

VisitNeighbors(graph, nbrs, path, st) ==
    IF nbrs = << >> THEN st
    ELSE VisitNeighbors(graph, Tail(nbrs), path, find_cycles_from(graph, nbrs[1], path, st))

RECURSIVE FindFromEach(_, _, _)
FindFromEach(graph, nodes, st) ==
    IF nodes = << >> THEN st
    ELSE FindFromEach(graph, Tail(nodes),
                      IF nodes[1] \in st.visited THEN st
                      ELSE find_cycles_from(graph, nodes[1], << >>, st))

detect_movement_cycles(els, active) ==
    FindFromEach(BlockingGraph(els, active), active,
                 [ visited |-> {}, rec_stack |-> {}, cycles |-> << >> ]).cycles

\* _break_cycle: the first member of the cycle that has a free neighbour moves to
\* the neighbour its sort puts first (equal keys: any of them)
BestCycleMoves(g, e, topo) ==
    LET valid_moves == FreeNeighbors(g, e.x, e.y, topo)
        align(p) == (p[1] - e.x) * (e.target_x - e.x) + (p[2] - e.y) * (e.target_y - e.y)
        far(p) == Manhattan(p, Pos(e))
    IN IF topo = "vonNeumann" THEN ArgMax(ArgMax(valid_moves, align), far)
       ELSE ArgMax(valid_moves, far)

RECURSIVE break_cycle(_, _, _, _)
break_cycle(g, els, cycle, topo) ==
    IF cycle = << >> THEN { NoChange(g, els) }
    ELSE LET id == cycle[1]
         IN IF id \notin DOMAIN els \/ FreeNeighbors(g, els[id].x, els[id].y, topo) = {}
            THEN break_cycle(g, els, Tail(cycle), topo)
            ELSE { TryMove(g, els, id, p) : p \in BestCycleMoves(g, els[id], topo) }

\* "for cycle in cycles: if self._break_cycle(...): return True"
RECURSIVE BreakFirstCycle(_, _, _, _)
BreakFirstCycle(g, els, cycles, topo) ==
    IF cycles = << >> THEN { NoChange(g, els) }
    ELSE IF Len(cycles[1]) < 2 THEN BreakFirstCycle(g, els, Tail(cycles), topo)
    ELSE LET rs == break_cycle(g, els, cycles[1], topo)
         IN IF \E r \in rs : r.ok THEN rs
            ELSE BreakFirstCycle(g, els, Tail(cycles), topo)

\* a deadlock helper that reassigns targets instead of moving
Reassigned(g, els) == [ ok |-> TRUE, g |-> g, e |-> els, log |-> << >>, attempts |-> << >> ]

\* _break_complex_deadlock, strategy 3 (lines 1463-1501): some active element
\* with a free neighbour moves, along its dominant axis when it can
StrategicMoves(g, e, topo) ==
    LET valid_moves == FreeNeighbors(g, e.x, e.y, topo)
        dx == e.target_x - e.x
        dy == e.target_y - e.y
        horizontal_moves == { p \in valid_moves : p[2] = e.y }
        vertical_moves == { p \in valid_moves : p[1] = e.x }
    IN IF topo # "vonNeumann" THEN valid_moves
       ELSE IF Abs(dx) > Abs(dy)
            THEN (IF horizontal_moves # {} THEN horizontal_moves ELSE valid_moves)
            ELSE (IF vertical_moves # {} THEN vertical_moves ELSE valid_moves)

\* some active element with a free neighbour makes one of the moves open to it
AnyElementMoves(g, els, active, topo, moves_of) ==
    IF \A i \in Range(active) : FreeNeighbors(g, els[i].x, els[i].y, topo) = {}
    THEN { NoChange(g, els) }
    ELSE UNION { { TryMove(g, els, i, p) : p \in moves_of[i] } :
                 i \in { j \in Range(active) :
                           FreeNeighbors(g, els[j].x, els[j].y, topo) # {} } }

\* the outcomes of the first strategy that has any, or that broke the deadlock
Prefer(S, T) == IF S # {} THEN S ELSE T
PreferBroken(S, T) == IF \E r \in S : r.ok THEN S ELSE T

\* strategies 2 and 3 of _break_complex_deadlock
CycleOrStrategicMove(g, els, active, topo) ==
    PreferBroken(BreakFirstCycle(g, els, detect_movement_cycles(els, active), topo),
                 AnyElementMoves(g, els, active, topo,
                                 [ i \in Range(active) |-> StrategicMoves(g, els[i], topo) ]))

\* strategy 1: a blocked element drawn at random steps to a free neighbour
BlockedElementMoves(g, els, id, topo, otherwise) ==
    IF id \in DOMAIN els /\ FreeNeighbors(g, els[id].x, els[id].y, topo) # {}
    THEN { TryMove(g, els, id, p) : p \in FreeNeighbors(g, els[id].x, els[id].y, topo) }
    ELSE otherwise

\* _break_complex_deadlock: the set of outcomes its random draws allow
break_complex_deadlock(g, els, blocked, topo) ==
    IF ActiveElements(els) = << >> THEN { NoChange(g, els) }
    ELSE IF blocked # {}
    THEN UNION { BlockedElementMoves(g, els, id, topo,
                                     CycleOrStrategicMove(g, els, ActiveElements(els), topo)) :
                 id \in blocked }
    ELSE CycleOrStrategicMove(g, els, ActiveElements(els), topo)

\* lines 1590-1597: the active elements next to e that have a free Moore neighbour
MooreHelpers(g, els, e) ==
    { n \in Range(ActiveElements(els)) :
        /\ Pos(els[n]) \in get_neighbors(g, e.x, e.y, "moore")
        /\ FreeNeighbors(g, els[n].x, els[n].y, "moore") # {} }

FarthestFrom(S, p) == { a \in S : \A b \in S : Manhattan(b, p) <= Manhattan(a, p) }
NearestTo(S, p) == { a \in S : \A b \in S : Manhattan(a, p) <= Manhattan(b, p) }

\* resolve_sequential_moore_deadlock, strategy 1 (lines 1585-1614): a neighbour
\* of the first surrounded active element steps as far from it as it can
RECURSIVE FreeSurrounded(_, _, _)
FreeSurrounded(g, els, todo_ids) ==
    IF todo_ids = << >> THEN {}
    ELSE IF /\ FreeNeighbors(g, els[todo_ids[1]].x, els[todo_ids[1]].y, "moore") = {}
            /\ MooreHelpers(g, els, els[todo_ids[1]]) # {}
    THEN UNION { { TryMove(g, els, n, p) :
                     p \in FarthestFrom(FreeNeighbors(g, els[n].x, els[n].y, "moore"),
                                        Pos(els[todo_ids[1]])) } :
                 n \in MooreHelpers(g, els, els[todo_ids[1]]) }
    ELSE FreeSurrounded(g, els, Tail(todo_ids))

\* the elements standing on cell p; the first of a set in dictionary order
ElementsAt(els, p) == { b \in DOMAIN els : Pos(els[b]) = p }
FirstOf(S) == CHOOSE c \in S : \A d \in S : c <= d

\* lines 1636-1664: the element b blocking a target is reassigned or moved away
MoveBlocker(g, els, b, targets, otherwise) ==
    IF AtTarget(els[b])
    THEN { Reassigned(g, a) : a \in assign_targets(els, targets) }
    ELSE IF FreeNeighbors(g, els[b].x, els[b].y, "moore") = {} THEN otherwise
    ELSE IF has_target(els[b])
    THEN { TryMove(g, els, b, p) :
             p \in NearestTo(FreeNeighbors(g, els[b].x, els[b].y, "moore"), Target(els[b])) }
    ELSE { TryMove(g, els, b, p) : p \in FreeNeighbors(g, els[b].x, els[b].y, "moore") }

\* strategy 2 (lines 1618-1664): an element one step from its target has the
\* element on that target moved away, or all targets reassigned
RECURSIVE UnblockClose(_, _, _, _)
UnblockClose(g, els, close, targets) ==
    IF close = << >> THEN {}
    ELSE IF \/ distance_to_target(els[close[1]]) # 1
            \/ ElementsAt(els, Target(els[close[1]])) = {}
    THEN UnblockClose(g, els, Tail(close), targets)
    ELSE MoveBlocker(g, els, FirstOf(ElementsAt(els, Target(els[close[1]]))), targets,
                     UnblockClose(g, els, Tail(close), targets))

WithKey(ids, key_of) == [ k \in 1..Len(ids) |-> [ id |-> ids[k], key |-> key_of[ids[k]] ] ]
IdsOf(keyed) == [ k \in 1..Len(keyed) |-> keyed[k].id ]

\* lines 1618-1619: the active elements at most two steps from their target, nearest first
CloseElements(els) ==
    IdsOf(SortByKey(WithKey(
        SetToSeq({ i \in DOMAIN els :
                     has_target(els[i]) /\ ~AtTarget(els[i]) /\ distance_to_target(els[i]) <= 2 }),
        [ i \in DOMAIN els |-> << distance_to_target(els[i]) >> ])))

\* strategies 3 and 4: a cycle is broken (_break_cycle with its default topology),
\* else some active element makes a random move
CycleOrRandomMove(g, els, active) ==
    PreferBroken(BreakFirstCycle(g, els, detect_movement_cycles(els, active), "vonNeumann"),
                 AnyElementMoves(g, els, active, "moore",
                                 [ i \in Range(active) |->
                                     FreeNeighbors(g, els[i].x, els[i].y, "moore") ]))

MooreStrategies(g, els, targets, active) ==
    Prefer(FreeSurrounded(g, els, active),
           Prefer(UnblockClose(g, els, CloseElements(els), targets),
                  CycleOrRandomMove(g, els, active)))

\* resolve_sequential_moore_deadlock: the set of outcomes its draws allow
resolve_sequential_moore_deadlock(g, els, targets) ==
    IF ActiveElements(els) = << >> THEN { NoChange(g, els) }
    ELSE MooreStrategies(g, els, targets, ActiveElements(els))

-----------------------------------------------------------------------------
(* _transform_independent: one iteration of the loop (lines 503-939) *)

AllAtTarget(els) == \A i \in DOMAIN els : has_target(els[i]) => AtTarget(els[i])

NoHistory(els) == [ i \in DOMAIN els |-> << >> ]
NoCounters(els) == [ i \in DOMAIN els |-> 0 ]

swap_frequency(topo) == IF topo = "vonNeumann" THEN 15 ELSE 20
swap_after == 100
reassign_after == 150
burst_period == 5

\* the emergency call of line 830 passes (blocked_elements, total_moves, topology);
\* the definition in force, the later one of the class body (line 1254), takes
\* (blocked_elements, total_moves)
emergency_call_arguments == 3
emergency_parameters == 2
EmergencyCallRaises == emergency_call_arguments # emergency_parameters

\* lines 521-536: occasional target swap for blocked elements
SwapDue(step_no, blocked, topo) ==
    step_no > swap_after /\ blocked # {} /\ step_no % swap_frequency(topo) = 0

Swapped(els, sw, stuck, hist, blocked) ==
    IF sw.ok
    THEN [ e |-> sw.e, stuck |-> NoCounters(els), hist |-> NoHistory(els),
           blocked |-> {}, trace |-> { "swap_attempt", "swap" } ]
    ELSE [ e |-> els, stuck |-> stuck, hist |-> hist, blocked |-> blocked,
           trace |-> { "swap_attempt" } ]

\* lines 521-536: occasional target swap for blocked elements
SwapStage(els, step_no, stuck, hist, blocked, topo) ==
    IF SwapDue(step_no, blocked, topo)
    THEN Swapped(els, swap_targets_for_blocked_elements(els, blocked), stuck, hist, blocked)
    ELSE [ e |-> els, stuck |-> stuck, hist |-> hist, blocked |-> blocked, trace |-> {} ]

\* lines 539-750 for one way ch the draws fell: the bookkeeping of all elements
\* and the planned moves, in dictionary order
AfterDecisions(ids, ds, ch, reached, blocked) ==
    LET K == 1..Len(ids)
        at(i) == CHOOSE k \in K : ids[k] = i
        planned == { k \in K : ch[k] # NoPos }
    IN [ reached |-> reached \cup { ids[k] : k \in { j \in K : ds[j].reached } },
         hist |-> [ i \in Range(ids) |-> ds[at(i)].hist ],
         stuck |-> [ i \in Range(ids) |->
                       ds[at(i)].stuck
                       + (IF ds[at(i)].kind \in { "escape", "plan" } /\ ch[at(i)] = NoPos
                          THEN 1 ELSE 0) ],
         blocked |-> (blocked \cup { ids[k] : k \in { j \in K : ds[j].blocked } })
                     \ { ids[k] : k \in { j \in K : ds[j].reached } },
         moves |-> [ k \in 1..Cardinality(planned) |->
                       LET j == CHOOSE a \in planned :
                                  Cardinality({ c \in planned : c < a }) = k - 1
                       IN [ id |-> ids[j], to |-> ch[j] ] ] ]

\* lines 836-839: the elements that have a target and have not reached it
Unsettled(els, reached) == { i \in DOMAIN els : i \notin reached /\ has_target(els[i]) }

\* a tick without a planned move that forgets the idle ticks before it
NoMovementForgotten(g, els, step_no, a, counter) ==
    [ pc |-> "independent", g |-> g, e |-> els, step |-> step_no + 1,
      reached |-> a.reached, stuck |-> a.stuck, hist |-> a.hist,
      blocked |-> a.blocked, counter |-> 0,
      log |-> << >>, attempts |-> << >>, trace |-> {} ]

\* lines 817-818: the tick as it stands when nobody planned a move
NoMovementBase(g, els, step_no, a, counter) ==
    [ pc |-> "independent", g |-> g, e |-> els, step |-> step_no + 1,
      reached |-> a.reached, stuck |-> a.stuck, hist |-> a.hist,
      blocked |-> a.blocked, counter |-> counter,
      log |-> << >>, attempts |-> << >>, trace |-> {} ]

\* lines 822-854, the global deadlock is declared
GlobalDeadlock(base, els, targets, step_no) ==
    IF base.blocked # {}
    THEN IF EmergencyCallRaises
         THEN { [ base EXCEPT !.pc = "raised", !.step = step_no,
                              !.trace = { "emergency_call" } ] }
         ELSE { [ base EXCEPT !.trace = { "emergency_call" } ] }
    ELSE IF step_no > reassign_after
    THEN { [ base EXCEPT !.e = r, !.stuck = NoCounters(els), !.hist = NoHistory(els),
                         !.blocked = {}, !.counter = 0,
                         !.trace = { "fill_blocked", "reassign" } ] :
           r \in assign_targets(els, targets) }
    ELSE IF base.counter >= max_no_movement_threshold * 2
    THEN { [ base EXCEPT !.pc = "finish", !.step = step_no,
                         !.blocked = Unsettled(els, base.reached),
                         !.trace = { "fill_blocked", "terminate" } ] }
    ELSE { [ base EXCEPT !.blocked = Unsettled(els, base.reached),
                         !.trace = { "fill_blocked" } ] }

\* lines 816-854: nobody planned a move
NoMovementOutcomes(g, els, targets, step_no, a, counter) ==
    IF counter + 1 < max_no_movement_threshold
    THEN { NoMovementBase(g, els, step_no, a, counter + 1) }
    ELSE GlobalDeadlock(NoMovementBase(g, els, step_no, a, counter + 1), els, targets, step_no)

\* lines 896-920: the tick as it stands once the reserved moves were tried
Executed(ex, step_no, a, blocked) ==
    [ pc |-> "independent", g |-> ex.g, e |-> ex.e, step |-> step_no + 1,
      reached |-> a.reached, stuck |-> a.stuck, hist |-> a.hist,
      blocked |-> blocked \ { ex.log[k].agentId : k \in 1..Len(ex.log) }, counter |-> 0,
      log |-> ex.log, attempts |-> ex.attempts,
      trace |-> IF Len(ex.attempts) < Len(a.moves) THEN { "reservation_conflict" } ELSE {} ]

\* lines 922-934: the helper a sequential burst calls
Burst(g, els, targets, blocked, topo) ==
    IF topo = "moore" THEN resolve_sequential_moore_deadlock(g, els, targets)
    ELSE break_complex_deadlock(g, els, blocked, "vonNeumann")

BurstHelper(topo) ==
    IF topo = "moore" THEN "resolve_sequential_moore_deadlock" ELSE "break_complex_deadlock"

\* lines 931-934: the tick with what the helper did
WithBurst(base, b, topo) ==
    [ base EXCEPT !.g = b.g, !.e = b.e, !.log = base.log \o b.log,
                  !.attempts = base.attempts \o b.attempts,
                  !.trace = base.trace \cup { BurstHelper(topo) }
                            \cup (IF b.ok THEN { "deadlock_broken" } ELSE {}) ]

\* lines 922-937: a sequential tick that moved calls the helper every fifth step
AfterExecution(base, targets, step_no, mov, topo) ==
    IF mov = "sequential" /\ Len(base.log) > 0 /\ step_no % burst_period = 0
    THEN { WithBurst(base, b, topo) : b \in Burst(base.g, base.e, targets, base.blocked, topo) }
    ELSE { base }

\* lines 855-939: somebody planned a move
MovementOutcomes(g, els, targets, step_no, a, counter, moves, mov, topo) ==
    AfterExecution(
        Executed(ExecuteMoves(g, els, ReserveMoves(GoalFirstOrder(els, moves))), step_no, a,
                 IF counter > 0 /\ a.blocked # {}
                 THEN StillBlocked(els, a.blocked, a.stuck) ELSE a.blocked),
        targets, step_no, mov, topo)

-----------------------------------------------------------------------------
(* _transform_centralized (lines 157-260) and _resolve_deadlocks (1752-1821) *)

\* a grid move whose record is appended to total_moves before the call, whatever
\* the call returns (lines 195-197, 1786-1788, 1813-1817)
LoggedMove(g, els, id, to) ==
    LET r == TryMove(g, els, id, to)
    IN [ r EXCEPT !.ok = TRUE,
                  !.log = << [ agentId |-> id, from |-> Pos(els[id]), to |-> to ] >> ]

NotOccupied(g, x, y) == { n \in get_neighbors(g, x, y, "vonNeumann") : ~is_occupied(g, n[1], n[2]) }

\* _resolve_deadlocks: the outcomes its random draws and the neighbour order allow
resolve_deadlocks(g, els) ==
    LET unsettled == { i \in DOMAIN els : has_target(els[i]) /\ ~AtTarget(els[i]) }
        surrounded == { i \in unsettled :
                          Cardinality({ n \in get_neighbors(g, els[i].x, els[i].y, "vonNeumann") :
                                          is_occupied(g, n[1], n[2]) }) >= 3 }
        stuck_elements == IF surrounded # {} THEN surrounded
                          ELSE IF unsettled # {}
                          THEN { CHOOSE i \in unsettled : \A j \in unsettled : i <= j }
                          ELSE {}
        helpers(i) == { b \in DOMAIN els :
                          /\ Pos(els[b]) \in get_neighbors(g, els[i].x, els[i].y, "vonNeumann")
                          /\ NotOccupied(g, els[b].x, els[b].y) # {} }
        by(i) == LET free_spaces == NotOccupied(g, els[i].x, els[i].y)
                 IN IF free_spaces # {}
                    THEN { LoggedMove(g, els, i, p) : p \in free_spaces }
                    ELSE IF helpers(i) # {}
                    THEN UNION { { LoggedMove(g, els, b, p) :
                                     p \in NotOccupied(g, els[b].x, els[b].y) } :
                                 b \in helpers(i) }
                    ELSE { NoChange(g, els) }
    IN IF stuck_elements = {} THEN { NoChange(g, els) }
       ELSE UNION { by(i) : i \in stuck_elements }

\* lines 165-172: planning order, by row and then by distance to the target
sorted_elements(els) ==
    LET with_target == SetToSeq({ i \in DOMAIN els : has_target(els[i]) })
        keyed == [ k \in 1..Len(with_target) |->
                     [ id |-> with_target[k],
                       key |-> << els[with_target[k]].y,
                                  distance_to_target(els[with_target[k]]),
                                  with_target[k] >> ] ]
        sorted == SortByKey(keyed)
    IN [ k \in 1..Len(sorted) |-> sorted[k].id ]

\* lines 194-202: the element walks its path; a refused step calls
\* _resolve_deadlocks and ends the walk
RECURSIVE WalkPath(_, _, _, _)
WalkPath(g, els, id, steps) ==
    IF steps = << >> THEN { NoChange(g, els) }
    ELSE LET r == LoggedMove(g, els, id, steps[1])
             failed == ~r.attempts[1].ok
             rest == IF failed THEN resolve_deadlocks(r.g, r.e)
                     ELSE WalkPath(r.g, r.e, id, Tail(steps))
         IN { [ ok |-> ~failed /\ q.ok, g |-> q.g, e |-> q.e,
                log |-> r.log \o q.log, attempts |-> r.attempts \o q.attempts ] : q \in rest }

\* lines 210-219: the moves of round step_no, nearest destination first
planned_moves(els, ps, step_no) ==
    LET due == SelectSeq(ps, LAMBDA r : step_no < Len(r.path))
        keyed == [ k \in 1..Len(due) |->
                     [ id |-> due[k].id, to |-> due[k].path[step_no + 1],
                       key |-> << Manhattan(Target(els[due[k].id]), due[k].path[step_no + 1]) >> ] ]
        sorted == SortByKey(keyed)
    IN [ k \in 1..Len(sorted) |-> [ id |-> sorted[k].id, to |-> sorted[k].to ] ]

\* lines 222-233: a move is skipped if its cell was taken in this round, and logged
\* only if the grid accepted it; "from" is read after the move
RECURSIVE ExecuteRound(_, _, _, _)
ExecuteRound(g, els, moves, positions_taken) ==
    IF moves = << >>
    THEN [ g |-> g, e |-> els, log |-> << >>, attempts |-> << >>, taken |-> positions_taken ]
    ELSE IF moves[1].to \in positions_taken
    THEN ExecuteRound(g, els, Tail(moves), positions_taken)
    ELSE LET r == TryMove(g, els, moves[1].id, moves[1].to)
             rest == ExecuteRound(r.g, r.e, Tail(moves),
                                  IF r.ok THEN positions_taken \cup { moves[1].to }
                                  ELSE positions_taken)
         IN [ rest EXCEPT
                !.log = (IF r.ok
                         THEN << [ agentId |-> moves[1].id, from |-> Pos(r.e[moves[1].id]),
                                   to |-> moves[1].to ] >>
                         ELSE << >>) \o rest.log,
                !.attempts = r.attempts \o rest.attempts ]

max_path_length(ps) ==
    IF ps = << >> THEN 0
    ELSE LET lens == { Len(ps[k].path) : k \in 1..Len(ps) }
         IN CHOOSE m \in lens : \A l \in lens : l <= m

-----------------------------------------------------------------------------
(* The transform() state machine *)

Algorithms == { "astar", "minimax", "dijkstra" }   \* find_path knows the first only
Topologies == { "vonNeumann", "moore" }
Movements == { "sequential", "parallel" }
ControlModes == { "centralized", "independent" }

NoResult == [ returned |-> FALSE, success |-> FALSE, at_target |-> 0, total |-> 0,
              n_moves |-> 0, message |-> FALSE ]
NoSearch == [ kind |-> "none" ]

CountMoves(n, log) == Min2(MaxMoveCount, n + Len(log))

\* a result that counts every element that has a target as being on it
ResultCountingAll(els, mode, moves_logged) ==
    LET total == Cardinality({ i \in DOMAIN els : has_target(els[i]) })
    IN [ returned |-> TRUE, success |-> total > 0,
         at_target |-> total, total |-> total, n_moves |-> moves_logged,
         message |-> FALSE ]

\* lines 239-260 and 941-958: the dictionary returned, success_rate kept as the
\* fraction at_target / total.  message tells whether the dictionary has the key
\* "message": transform() adds it only to the default result of lines 138-147,
\* built when a loop hands back None, and both loops hand back a dictionary.
Result(els, mode, moves_logged) ==
    LET total == Cardinality({ i \in DOMAIN els : has_target(els[i]) })
        at_target == Cardinality({ i \in DOMAIN els : AtTarget(els[i]) })
    IN [ returned |-> TRUE,
         success |-> IF mode = "centralized" THEN AllAtTarget(els)
                     ELSE total > 0 /\ 100 * at_target > 95 * total,
         at_target |-> at_target, total |-> total, n_moves |-> moves_logged,
         message |-> FALSE ]

\* the state after initialize_elements(n) and set_target_shape on a fresh grid
Init ==
    \E size \in GridSizes, n \in 1..MaxElements :
      /\ n <= (size[1] - 2 * boundary_size) * (size[2] - 2 * boundary_size)
      /\ LET placed == initialize_elements(size[1], size[2], n)
         IN /\ grid = placed.g
            /\ elements = placed.e
            /\ \E shape \in [ 1..n -> Positions(size[1], size[2]) ] :
                 target_positions = set_target_shape(placed.g, Range(shape))
      /\ algorithm = "astar" /\ topology = "vonNeumann"
      /\ movement = "sequential" /\ control_mode = "centralized"
      /\ pc = "idle"
      /\ current_step = 0 /\ reached_targets = {}
      /\ stuck_counter = [ i \in 0..(n - 1) |-> 0 ]
      /\ position_history = [ i \in 0..(n - 1) |-> << >> ]
      /\ blocked_elements = {} /\ global_no_movement_counter = 0
      /\ paths = << >> /\ todo = << >> /\ step = 1
      /\ round_moves = << >> /\ n_moves = 0 /\ attempts = << >> /\ trace = {}
      /\ result = NoResult /\ search = NoSearch

\* transform(): lines 119-135, and the set-up of either loop
transform ==
    /\ pc = "idle"
    /\ \E alg \in Algorithms, topo \in Topologies, mov \in Movements, mode \in ControlModes :
         /\ algorithm' = alg /\ topology' = topo /\ movement' = mov /\ control_mode' = mode
         /\ pc' = mode
         /\ \E assigned \in assign_targets(elements, target_positions) :
              /\ elements' = assigned
              /\ todo' = IF mode = "centralized" THEN sorted_elements(assigned) ELSE << >>
    /\ trace' = { "assign_targets" }
    /\ UNCHANGED << grid, target_positions, current_step, reached_targets, stuck_counter,
                    position_history, blocked_elements, global_no_movement_counter,
                    paths, step, round_moves, n_moves, attempts, result, search >>

\* what the tick leads to once the moves of the round are settled
RoundOutcomes(sw, a, moves) ==
    IF moves = << >>
    THEN NoMovementOutcomes(grid, sw.e, target_positions, current_step, a,
                            global_no_movement_counter)
    ELSE MovementOutcomes(grid, sw.e, target_positions, current_step, a,
                          global_no_movement_counter, moves, movement, topology)

ChoiceOutcomes(sw, a) ==
    RoundOutcomes(sw, a,
                  IF movement = "parallel" /\ a.moves # << >>
                  THEN ParallelConflictResolution(grid, sw.e, a.moves, a.stuck, a.blocked,
                                                  a.reached, topology)
                  ELSE a.moves)

DecidedOutcomes(sw, ids, ds) ==
    UNION { ChoiceOutcomes(sw, AfterDecisions(ids, ds, ch, reached_targets, sw.blocked)) :
            ch \in Choices(ds) }

TickOutcomes(sw) ==
    { [ o EXCEPT !.trace = @ \cup sw.trace ] :
      o \in DecidedOutcomes(sw, SetToSeq(DOMAIN elements),
                            DecideAll(grid, sw.e, SetToSeq(DOMAIN elements), reached_targets,
                                      sw.hist, sw.stuck, algorithm, topology)) }

\* the variables of the independent loop after one iteration
Commit(o) ==
    /\ pc' = o.pc /\ grid' = o.g /\ elements' = o.e
    /\ current_step' = o.step /\ reached_targets' = o.reached
    /\ stuck_counter' = o.stuck /\ position_history' = o.hist
    /\ blocked_elements' = o.blocked /\ global_no_movement_counter' = o.counter
    /\ round_moves' = o.log /\ attempts' = o.attempts /\ trace' = o.trace
    /\ n_moves' = CountMoves(n_moves, o.log)

\* one iteration of the independent loop
IndependentTick ==
    /\ pc = "independent"
    /\ current_step < max_steps
    /\ ~AllAtTarget(elements)
    /\ \E o \in TickOutcomes(SwapStage(elements, current_step, stuck_counter,
                                       position_history, blocked_elements, topology)) :
         Commit(o)
    /\ UNCHANGED << target_positions, algorithm, topology, movement, control_mode,
                    paths, todo, step, result, search >>

\* the independent loop is left: result of lines 941-958
IndependentReturn ==
    /\ \/ pc = "finish"
       \/ pc = "independent" /\ (current_step >= max_steps \/ AllAtTarget(elements))
    /\ result' = Result(elements, "independent", n_moves)
    /\ pc' = "done"
    /\ round_moves' = << >> /\ attempts' = << >> /\ trace' = { "return" }
    /\ UNCHANGED << grid, elements, target_positions, algorithm, topology, movement,
                    control_mode, current_step, reached_targets, stuck_counter,
                    position_history, blocked_elements, global_no_movement_counter,
                    paths, todo, step, n_moves, search >>

\* lines 187-202: what becomes of the planned path
PathOutcomes(g, id, path) ==
    IF path # NoPath /\ movement = "sequential"
    THEN WalkPath(g, elements, id, Tail(path))
    ELSE { NoChange(g, elements) }

\* lines 170-202: the next element of the planning order
CentralizedPlan ==
    /\ pc = "centralized" /\ todo # << >>
    /\ \E path \in PlanWithElementRemoved(grid, elements, Head(todo), algorithm, topology).paths :
         /\ paths' = IF path = NoPath THEN paths
                     ELSE Append(paths, [ id |-> Head(todo), path |-> path ])
         /\ \E w \in PathOutcomes(PlanWithElementRemoved(grid, elements, Head(todo),
                                                         algorithm, topology).g,
                                  Head(todo), path) :
              /\ grid' = w.g /\ elements' = w.e
              /\ round_moves' = w.log /\ attempts' = w.attempts
              /\ n_moves' = CountMoves(n_moves, w.log)
    /\ todo' = Tail(todo)
    /\ trace' = { "plan" }
    /\ UNCHANGED << target_positions, algorithm, topology, movement, control_mode, pc,
                    current_step, reached_targets, stuck_counter, position_history,
                    blocked_elements, global_no_movement_counter, step, result, search >>

\* lines 235-237: _resolve_deadlocks when fewer than half of the planned moves went through
RoundResult(planned, r) ==
    IF 2 * Cardinality(r.taken) < Len(planned)
    THEN { [ d EXCEPT !.log = r.log \o d.log, !.attempts = r.attempts \o d.attempts,
                      !.ok = TRUE ] :
           d \in resolve_deadlocks(r.g, r.e) }
    ELSE { [ ok |-> FALSE, g |-> r.g, e |-> r.e, log |-> r.log, attempts |-> r.attempts ] }

RoundOf(planned) == RoundResult(planned, ExecuteRound(grid, elements, planned, {}))

\* lines 208-237: one round of the parallel execution
CentralizedRound ==
    /\ pc = "centralized" /\ todo = << >> /\ movement = "parallel"
    /\ step < max_path_length(paths)
    /\ \E d \in RoundOf(planned_moves(elements, paths, step)) :
         /\ grid' = d.g /\ elements' = d.e
         /\ round_moves' = d.log
         /\ attempts' = d.attempts
         /\ n_moves' = CountMoves(n_moves, d.log)
         /\ trace' = { "round" } \cup (IF d.ok THEN { "resolve_deadlocks" } ELSE {})
    /\ step' = step + 1
    /\ UNCHANGED << target_positions, algorithm, topology, movement, control_mode, pc,
                    current_step, reached_targets, stuck_counter, position_history,
                    blocked_elements, global_no_movement_counter, paths, todo, result,
                    search >>

\* lines 239-260
CentralizedReturn ==
    /\ pc = "centralized" /\ todo = << >>
    /\ movement = "sequential" \/ step >= max_path_length(paths)
    /\ result' = Result(elements, "centralized", n_moves)
    /\ pc' = "done"
    /\ round_moves' = << >> /\ attempts' = << >> /\ trace' = { "return" }
    /\ UNCHANGED << grid, elements, target_positions, algorithm, topology, movement,
                    control_mode, current_step, reached_targets, stuck_counter,
                    position_history, blocked_elements, global_no_movement_counter,
                    paths, todo, step, n_moves, search >>

Next ==
    \/ transform
    \/ IndependentTick
    \/ IndependentReturn
    \/ CentralizedPlan
    \/ CentralizedRound
    \/ CentralizedReturn

Spec == Init /\ [][Next]_vars

-----------------------------------------------------------------------------
(* Adversarial search: the world the searches move elements about in *)

MaxAgents == 3            \* most elements on the grid of a search
MaxDepth == 3             \* largest max_depth a search is called with
SearchRows == 3           \* elements of a search start in the lowest rows of the grid
SearchGridSizes == { <<4, 12>> }

Infinity == 1000000       \* float('inf'); -Infinity is float('-inf')
goal_value == 1000
bottom_row_from == 9
stuck_penalty == 20
upward_bonus == 50

World(g, els) == [ g |-> g, e |-> els ]

\* grid.remove_element(element); element.x, element.y = p; grid.add_element(element)
Relocate(w, id, p) ==
    [ g |-> add_element(remove_element(w.g, w.e[id]),
                        [ w.e[id] EXCEPT !.x = p[1], !.y = p[2] ], id),
      e |-> [ w.e EXCEPT ![id].x = p[1], ![id].y = p[2] ] ]

\* a restoring step that leaves the element where the simulated move put it
RestoreNothing(w, id, old) == w

\* "Restore position" after a simulated move
Restore(w, id, old) == Relocate(w, id, old)

\* the orders in which grid.get_neighbors may list the cells around a position
NeighborOrders(topo) ==
    IF topo = "vonNeumann"
    THEN { << <<0, -1>>, <<1, 0>>, <<0, 1>>, <<-1, 0>> >>,
           << <<-1, 0>>, <<0, 1>>, <<1, 0>>, <<0, -1>> >> }
    ELSE { << <<0, -1>>, <<1, 0>>, <<0, 1>>, <<-1, 0>>,
              <<1, -1>>, <<1, 1>>, <<-1, 1>>, <<-1, -1>> >>,
           << <<-1, -1>>, <<-1, 1>>, <<1, 1>>, <<1, -1>>,
              <<-1, 0>>, <<0, 1>>, <<1, 0>>, <<0, -1>> >> }

\* grid.get_neighbors as a list
neighbors_in_order(g, p, order) ==
    SelectSeq([ k \in 1..Len(order) |-> << p[1] + order[k][1], p[2] + order[k][2] >> ],
              LAMBDA q : is_valid_position(g, q[1], q[2]))

\* valid_moves: the neighbours that are neither wall nor element
free_moves(g, p, order) ==
    SelectSeq(neighbors_in_order(g, p, order),
              LAMBDA q : ~is_wall(g, q[1], q[2]) /\ ~is_element(g, q[1], q[2]))

upward_of(moves, y) == SelectSeq(moves, LAMBDA q : q[2] < y)

\* a wall or an element on the row of p between p (excluded) and the goal column
HorizontalBlocked(g, p, goal) ==
    \E x \in Min2(p[1], goal[1])..Max2(p[1], goal[1]) :
        x # p[1] /\ (is_wall(g, x, p[2]) \/ is_element(g, x, p[2]))

\* a wall or an element on the column of p between p (excluded) and the goal row
VerticalBlocked(g, p, goal) ==
    \E y \in Min2(p[2], goal[2])..Max2(p[2], goal[2]) :
        y # p[2] /\ (is_wall(g, p[1], y) \/ is_element(g, p[1], y))

RECURSIVE ProximityPenalty(_, _, _)
ProximityPenalty(els, p, ids) ==
    IF ids = << >> THEN 0
    ELSE (IF Head(ids) \in DOMAIN els /\ Manhattan(p, Pos(els[Head(ids)])) <= 2
          THEN -((3 - Manhattan(p, Pos(els[Head(ids)]))) * 10) ELSE 0)
         + ProximityPenalty(els, p, Tail(ids))

-----------------------------------------------------------------------------
(* app/algorithms/minimax.py *)

\* evaluate_state, lines 415-493
minimax_distance_score(p, goal, brp) ==
    IF brp
    THEN -5 * Manhattan(p, goal) + (p[2] - goal[2]) * 20
         - (IF p[2] >= bottom_row_from THEN 100 ELSE 0)
    ELSE -10 * Manhattan(p, goal)

minimax_path_penalty(g, p, goal, brp) ==
    (IF HorizontalBlocked(g, p, goal) THEN -15 ELSE 0)
    + (IF VerticalBlocked(g, p, goal)
       THEN -15 - (IF brp /\ goal[2] < p[2] THEN 30 ELSE 0) ELSE 0)

minimax_upward_path_score(g, p, brp) ==
    IF brp /\ \E q \in FreeNeighbors(g, p[1], p[2], "vonNeumann") : q[2] < p[2]
    THEN 50 ELSE 0

minimax_evaluate_state(w, id, goal, adversaries, brp) ==
    minimax_distance_score(Pos(w.e[id]), goal, brp)
    + minimax_path_penalty(w.g, Pos(w.e[id]), goal, brp)
    + 5 * Cardinality(FreeNeighbors(w.g, w.e[id].x, w.e[id].y, "vonNeumann"))
    + minimax_upward_path_score(w.g, Pos(w.e[id]), brp)
    + ProximityPenalty(w.e, Pos(w.e[id]), adversaries)

\* calculate_threat_level, lines 371-413
calculate_threat_level(start, goal, their, their_goal, brp) ==
    (20 - Min2(Min2(Manhattan(their, start), Manhattan(their, goal)), 20))
    + (IF brp /\ their[2] < start[2] /\ Abs(their[1] - start[1]) <= 1 THEN 50 ELSE 0)
    + (IF Abs((goal[1] - start[1]) * (their_goal[2] - their[2])
              - (goal[2] - start[2]) * (their_goal[1] - their[1])) < 10 THEN 5 ELSE 15)
    + (IF /\ Min2(start[1], goal[1]) <= their[1] /\ their[1] <= Max2(start[1], goal[1])
          /\ Min2(start[2], goal[2]) <= their[2] /\ their[2] <= Max2(start[2], goal[2])
       THEN 20 ELSE 0)

\* the bounding box of find_potential_adversaries: << min_x, max_x, min_y, max_y >>
SearchBox(start, goal, brp) ==
    << Min2(start[1], goal[1]) - 2, Max2(start[1], goal[1]) + 2,
       IF brp THEN Min2(start[2] - 3, goal[2]) ELSE Min2(start[2], goal[2]) - 2,
       IF brp THEN Min2(start[2] + 1, goal[2] + 1) ELSE Max2(start[2], goal[2]) + 2 >>

InBox(box, p) == box[1] <= p[1] /\ p[1] <= box[2] /\ box[3] <= p[2] /\ p[2] <= box[4]

\* the threat of one other element, or -1 if it is no adversary
ThreatOf(other, start, goal, brp, box) ==
    IF ~(InBox(box, Pos(other)) /\ has_target(other) /\ ~AtTarget(other)) THEN -1
    ELSE IF brp /\ other.y < start[2] /\ Abs(other.x - start[1]) <= 1 THEN 100
    ELSE IF /\ box[1] <= Max2(other.x, other.target_x)
            /\ box[2] >= Min2(other.x, other.target_x)
            /\ box[3] <= Max2(other.y, other.target_y)
            /\ box[4] >= Min2(other.y, other.target_y)
    THEN calculate_threat_level(start, goal, Pos(other), Target(other), brp)
    ELSE -1

\* a cut that keeps the whole list
TakeAll(s, n) == s

\* the first n entries of a list
Take(s, n) == SubSeq(s, 1, Min2(n, Len(s)))

\* find_potential_adversaries, lines 298-369: ids by descending threat, at most 2
\* (3 for a bottom-row element)
find_potential_adversaries(els, id, start, goal, brp) ==
    LET others == SelectSeq(SetToSeq(DOMAIN els \ {id}),
                            LAMBDA o : ThreatOf(els[o], start, goal, brp,
                                                SearchBox(start, goal, brp)) >= 0)
        keyed == [ k \in 1..Len(others) |->
                     [ id |-> others[k],
                       key |-> << -ThreatOf(els[others[k]], start, goal, brp,
                                            SearchBox(start, goal, brp)) >> ] ]
        sorted == SortByKey(keyed)
    IN Take([ k \in 1..Len(sorted) |-> sorted[k].id ], IF brp THEN 3 ELSE 2)

\* a cut-off taken while the window is still open by 15
CutOffEarly(alpha, beta) == beta <= alpha + 15

\* "if beta <= alpha: break", lines 228 and 293
CutOff(alpha, beta) == beta <= alpha

Leaf(v, w) == [ v |-> v, w |-> w, cuts |-> 0 ]

\* the moves of a MAX node, lines 193-202
MaxValidMoves(w, c) ==
    IF c.brp /\ upward_of(free_moves(w.g, Pos(w.e[c.id]), c.order), w.e[c.id].y) # << >>
    THEN upward_of(free_moves(w.g, Pos(w.e[c.id]), c.order), w.e[c.id].y)
    ELSE free_moves(w.g, Pos(w.e[c.id]), c.order)

\* the moves of a MIN node, lines 248-261: the free neighbours of the adversary
\* other than the searching element's cell, then staying put
MinValidMoves(w, c, adv) ==
    SelectSeq(free_moves(w.g, Pos(w.e[adv]), c.order), LAMBDA q : q # Pos(w.e[c.id]))
    \o << Pos(w.e[adv]) >>
    \o (IF w.e[adv].y >= bottom_row_from /\ c.brp
        THEN << Pos(w.e[adv]), Pos(w.e[adv]), Pos(w.e[adv]) >> ELSE << >>)

\* minimax_value, lines 159-296; c holds the arguments that never change in the
\* recursion: id, max_depth, order, goal, brp, and prune (whether the cut-offs
\* of lines 228 and 293 are taken). Yields the value and the world left behind.
RECURSIVE minimax_value(_, _, _, _, _, _, _)
RECURSIVE MaxMoves(_, _, _, _, _, _, _, _)
RECURSIVE MinMoves(_, _, _, _, _, _, _, _, _)

\* lines 225-229
MaxNext(w, c, advs, depth, alpha, beta, moves, acc) ==
    IF c.prune /\ CutOff(alpha, beta)
    THEN [ v |-> acc.v, w |-> w,
           cuts |-> acc.cuts + (IF Len(moves) > 1 THEN 1 ELSE 0) ]
    ELSE MaxMoves(w, c, advs, depth, alpha, beta, Tail(moves), acc)

\* lines 220-226
MaxAfter(w, c, advs, depth, alpha, beta, moves, acc, r) ==
    MaxNext(Restore(r.w, c.id, Pos(w.e[c.id])), c, advs, depth,
            Max2(alpha, Max2(acc.v, r.v)), beta, moves,
            [ v |-> Max2(acc.v, r.v), cuts |-> acc.cuts + r.cuts ])

\* lines 209-231
MaxMoves(w, c, advs, depth, alpha, beta, moves, acc) ==
    IF moves = << >> THEN [ v |-> acc.v, w |-> w, cuts |-> acc.cuts ]
    ELSE MaxAfter(w, c, advs, depth, alpha, beta, moves, acc,
                  minimax_value(Relocate(w, c.id, Head(moves)), c, advs, depth + 1,
                                FALSE, alpha, beta))

\* lines 290-294
MinNext(w, c, adv, remaining, depth, alpha, beta, moves, acc) ==
    IF c.prune /\ CutOff(alpha, beta)
    THEN [ v |-> acc.v, w |-> w,
           cuts |-> acc.cuts + (IF Len(moves) > 1 THEN 1 ELSE 0) ]
    ELSE MinMoves(w, c, adv, remaining, depth, alpha, beta, Tail(moves), acc)

\* lines 285-291
MinAfter(w, c, adv, remaining, depth, alpha, beta, moves, acc, r) ==
    MinNext(IF Head(moves) = Pos(w.e[adv]) THEN r.w
            ELSE Restore(r.w, adv, Pos(w.e[adv])),
            c, adv, remaining, depth, alpha, Min2(beta, Min2(acc.v, r.v)), moves,
            [ v |-> Min2(acc.v, r.v), cuts |-> acc.cuts + r.cuts ])

\* lines 267-296
MinMoves(w, c, adv, remaining, depth, alpha, beta, moves, acc) ==
    IF moves = << >> THEN [ v |-> acc.v, w |-> w, cuts |-> acc.cuts ]
    ELSE MinAfter(w, c, adv, remaining, depth, alpha, beta, moves, acc,
                  minimax_value(IF Head(moves) = Pos(w.e[adv]) THEN w
                                ELSE Relocate(w, adv, Head(moves)),
                                c, remaining, depth + 1, TRUE, alpha, beta))

\* lines 204-207
MaxNode(w, c, advs, depth, alpha, beta, moves) ==
    IF moves = << >>
    THEN Leaf(minimax_evaluate_state(w, c.id, c.goal, advs, c.brp) - stuck_penalty, w)
    ELSE MaxMoves(w, c, advs, depth, alpha, beta, moves, [ v |-> -Infinity, cuts |-> 0 ])

minimax_value(w, c, advs, depth, is_max, alpha, beta) ==
    IF depth >= c.max_depth
    THEN Leaf(minimax_evaluate_state(w, c.id, c.goal, advs, c.brp), w)
    ELSE IF Pos(w.e[c.id]) = c.goal THEN Leaf(goal_value, w)
    ELSE IF is_max THEN MaxNode(w, c, advs, depth, alpha, beta, MaxValidMoves(w, c))
    ELSE IF advs = << >>
    THEN minimax_value(w, c, advs, depth + 1, TRUE, alpha, beta)
    ELSE IF Head(advs) \in DOMAIN w.e
    THEN MinMoves(w, c, Head(advs), Tail(advs), depth, alpha, beta,
                  MinValidMoves(w, c, Head(advs)), [ v |-> Infinity, cuts |-> 0 ])
    ELSE Leaf(Infinity, w)

\* what a search hands back: the path (NoPath for None), nodes_explored of the
\* search proper, the world it leaves behind, the return statement taken and the
\* number of cut-offs that skipped a move
SearchResult(path, nodes, w, via, cuts) ==
    [ raised |-> FALSE, path |-> path, nodes |-> nodes, w |-> w, via |-> via,
      cuts |-> cuts ]

\* lines 125-131
BetterMove(best, move, value, cuts) ==
    [ value |-> Max2(best.value, value),
      move |-> IF value > best.value THEN move ELSE best.move,
      alpha |-> Max2(best.alpha, Max2(best.value, value)),
      nodes |-> best.nodes + 1, cuts |-> best.cuts + cuts ]

\* lines 105-131: the root candidates in turn
RECURSIVE MinimaxRootMoves(_, _, _, _, _, _, _)
MinimaxRootAfter(w, c, advs, start, original, moves, best, r) ==
    MinimaxRootMoves(Restore(r.w, c.id, original), c, advs, start, original, Tail(moves),
                     BetterMove(best, Head(moves),
                                r.v + (IF c.brp /\ Head(moves)[2] < start[2]
                                       THEN upward_bonus ELSE 0),
                                r.cuts))

MinimaxRootMoves(w, c, advs, start, original, moves, best) ==
    IF moves = << >> THEN [ best |-> best, w |-> w ]
    ELSE MinimaxRootAfter(w, c, advs, start, original, moves, best,
                          minimax_value(Relocate(w, c.id, Head(moves)), c, advs, 1,
                                        FALSE, best.alpha, Infinity))

NoBest == [ value |-> -Infinity, move |-> NoPos, alpha |-> -Infinity, nodes |-> 0,
            cuts |-> 0 ]

\* lines 146-157: the rest of the path from the baseline pathfinder, the element
\* taken off the grid for the call and put back
AStarTail(w, id, start, goal, topo, best) ==
    { SearchResult(IF sub # NoPath /\ Len(sub) > 1
                   THEN << start, best.move >> \o Tail(sub)
                   ELSE << start, best.move >>,
                   best.nodes,
                   World(add_element(remove_element(w.g, w.e[id]), w.e[id], id), w.e),
                   "astar_tail", best.cuts) :
      sub \in astar_pathfind(remove_element(w.g, w.e[id]), best.move, goal, topo) }

\* lines 133-157
MinimaxFinish(r, id, start, goal, topo, brp) ==
    IF r.best.move = NoPos
    THEN { SearchResult(NoPath, r.best.nodes, r.w, "no_best_move", r.best.cuts) }
    ELSE IF brp
    THEN { SearchResult(<< start, r.best.move >>, r.best.nodes, r.w, "first_step",
                        r.best.cuts) }
    ELSE AStarTail(r.w, id, start, goal, topo, r.best)

\* lines 87-157: the 30% random upward move of a bottom-row element, or the search
MinimaxChoose(w, c, start, goal, topo, valid_moves) ==
    { SearchResult(<< start, upward_of(valid_moves, start[2])[k] >>, 0, w,
                   "random_upward", 0) :
      k \in IF c.brp THEN DOMAIN upward_of(valid_moves, start[2]) ELSE {} }
    \cup MinimaxFinish(MinimaxRootMoves(w, c,
                                        find_potential_adversaries(w.e, c.id, start, goal,
                                                                   c.brp),
                                        start, Pos(w.e[c.id]), valid_moves, NoBest),
                       c.id, start, goal, topo, c.brp)

\* line 65: an element in the column of start between the row above it and the goal row
ColumnBlocked(g, start, goal) ==
    \E y \in goal[2]..(start[2] - 1) : is_element(g, start[1], y)

\* lines 60-85: the bottom-row fast paths and the stuck return
MinimaxMoves(w, c, start, goal, topo, valid_moves, upward_moves) ==
    IF /\ c.brp /\ upward_moves # << >> /\ ColumnBlocked(w.g, start, goal)
       /\ topo = "moore" /\ Len(upward_moves) > 1
    THEN { SearchResult(<< start, upward_moves[k] >>, 1, w, "random_diagonal", 0) :
           k \in DOMAIN upward_moves }
    ELSE IF c.brp /\ upward_moves # << >> /\ ~ColumnBlocked(w.g, start, goal)
    THEN { SearchResult(<< start, upward_moves[1] >>, 1, w, "upward", 0) }
    ELSE IF valid_moves = << >>
    THEN { SearchResult(<< start >>, 1, w, "stuck", 0) }
    ELSE MinimaxChoose(w, c, start, goal, topo, valid_moves)

\* lines 40-44
minimax_depth(els, max_depth) ==
    IF Cardinality(DOMAIN els) > 10 THEN Max2(1, max_depth - 1) ELSE max_depth

\* minimax_pathfind that takes every cell of the grid for a start and a goal
WithoutWallCheck(w, start, goal, id, topo, order, max_depth) ==
    IF \/ ~is_valid_position(w.g, start[1], start[2])
       \/ ~is_valid_position(w.g, goal[1], goal[2])
    THEN { SearchResult(NoPath, 0, w, "invalid", 0) }
    ELSE { SearchResult(<< start >>, 1, w, "at_goal", 0) }

\* minimax_pathfind, lines 6-157: the set of results it may return
minimax_pathfind(w, start, goal, id, topo, order, max_depth) ==
    IF \/ ~is_valid_position(w.g, start[1], start[2])
       \/ ~is_valid_position(w.g, goal[1], goal[2])
    THEN { SearchResult(NoPath, 0, w, "invalid", 0) }
    ELSE IF is_wall(w.g, start[1], start[2]) \/ is_wall(w.g, goal[1], goal[2])
    THEN { SearchResult(NoPath, 0, w, "wall", 0) }
    ELSE IF start = goal THEN { SearchResult(<< start >>, 1, w, "at_goal", 0) }
    ELSE IF id \notin DOMAIN w.e THEN { SearchResult(NoPath, 0, w, "no_element", 0) }
    ELSE MinimaxMoves(w, [ id |-> id, max_depth |-> minimax_depth(w.e, max_depth),
                           order |-> order, goal |-> goal,
                           brp |-> w.e[id].y >= bottom_row_from, prune |-> TRUE ],
                      start, goal, topo, free_moves(w.g, start, order),
                      upward_of(free_moves(w.g, start, order), start[2]))

-----------------------------------------------------------------------------
(* app/algorithms/expectimax.py; values are exact fractions [n, d] with d > 0 *)

RECURSIVE Gcd(_, _)
Gcd(a, b) == IF b = 0 THEN a ELSE Gcd(b, a % b)

Frac(n, d) == [ n |-> n \div Gcd(Abs(n), d), d |-> d \div Gcd(Abs(n), d) ]
Whole(n) == [ n |-> n, d |-> 1 ]
FracLess(a, b) == a.n * b.d < b.n * a.d
FracMax(a, b) == IF FracLess(a, b) THEN b ELSE a
FracAdd(a, b) ==
    Frac(a.n * (b.d \div Gcd(a.d, b.d)) + b.n * (a.d \div Gcd(a.d, b.d)),
         a.d * (b.d \div Gcd(a.d, b.d)))
FracTimes(a, n, d) == Frac(a.n * n, a.d * d)

\* the move weights of a chance node, doubled: 3.0, 1.5 and 1.0
stay_weight_bottom == 6
stay_weight == 3
move_weight == 2
bottom_rows == 3

is_bottom_row(g, y) == y >= g.height - bottom_rows

\* evaluate_state, lines 510-608: line 534 reads start_y, a name that is bound
\* neither in the function nor in the module, so the bottom-row branch raises
\* NameError before any value is computed
expectimax_evaluate_state(w, id, goal, interfering, bottom) ==
    IF bottom THEN [ raised |-> TRUE, v |-> Whole(0), w |-> w ]
    ELSE [ raised |-> FALSE, w |-> w,
           v |-> Whole(-10 * Manhattan(Pos(w.e[id]), goal)
                       + (IF HorizontalBlocked(w.g, Pos(w.e[id]), goal) THEN -15 ELSE 0)
                       + (IF VerticalBlocked(w.g, Pos(w.e[id]), goal) THEN -15 ELSE 0)
                       + 5 * Cardinality(FreeNeighbors(w.g, w.e[id].x, w.e[id].y,
                                                       "vonNeumann"))
                       + ProximityPenalty(w.e, Pos(w.e[id]), interfering)) ]

\* lines 438-465: whether the other element lies on the straight path
OnOurPath(start, goal, their) ==
    IF start[1] = goal[1]
    THEN their[1] = start[1] /\ Min2(start[2], goal[2]) <= their[2]
         /\ their[2] <= Max2(start[2], goal[2])
    ELSE IF start[2] = goal[2]
    THEN their[2] = start[2] /\ Min2(start[1], goal[1]) <= their[1]
         /\ their[1] <= Max2(start[1], goal[1])
    ELSE /\ Min2(start[1], goal[1]) <= their[1] /\ their[1] <= Max2(start[1], goal[1])
         /\ Min2(start[2], goal[2]) <= their[2] /\ their[2] <= Max2(start[2], goal[2])
         /\ LET dx == goal[1] - start[1]
                dy == goal[2] - start[2]
                den == dx * dx + dy * dy
                t == Max2(0, Min2(den, (their[1] - start[1]) * dx
                                       + (their[2] - start[2]) * dy))
            IN Abs((their[1] - start[1]) * den - t * dx)
               + Abs((their[2] - start[2]) * den - t * dy) <= den

\* lines 467-485
PathIntersection(start, goal, their, their_target) ==
    IF Abs((goal[1] - start[1]) * (their_target[2] - their[2])
           - (goal[2] - start[2]) * (their_target[1] - their[1])) > 5 THEN 20
    ELSE IF (goal[1] - start[1]) * (their_target[1] - their[1])
            + (goal[2] - start[2]) * (their_target[2] - their[2]) < 0 THEN 10
    ELSE 5

\* calculate_interference_score, lines 427-508
calculate_interference_score(start, goal, their, their_target, bottom) ==
    2 * Max2(0, 10 - Min2(Manhattan(their, start), Manhattan(their, goal)))
    + (IF OnOurPath(start, goal, their) THEN 30 ELSE 0)
    + PathIntersection(start, goal, their, their_target)
    + (IF bottom /\ their[2] < start[2] /\ Abs(their[1] - start[1]) <= 1 THEN 50 ELSE 0)

\* find_interfering_elements, lines 372-425
find_interfering_elements(els, id, start, goal, bottom) ==
    LET others == SelectSeq(SetToSeq(DOMAIN els \ {id}),
                            LAMBDA o : /\ InBox(SearchBox(start, goal, bottom), Pos(els[o]))
                                       /\ has_target(els[o]) /\ ~AtTarget(els[o]))
        keyed == [ k \in 1..Len(others) |->
                     [ id |-> others[k],
                       key |-> << -calculate_interference_score(
                                      start, goal, Pos(els[others[k]]),
                                      Target(els[others[k]]), bottom) >> ] ]
        sorted == SortByKey(keyed)
    IN Take([ k \in 1..Len(sorted) |-> sorted[k].id ], IF bottom THEN 3 ELSE 2)

\* lines 202-212
ExpMaxValidMoves(w, c) ==
    IF c.bottom /\ upward_of(free_moves(w.g, Pos(w.e[c.id]), c.order), w.e[c.id].y) # << >>
    THEN upward_of(free_moves(w.g, Pos(w.e[c.id]), c.order), w.e[c.id].y)
    ELSE free_moves(w.g, Pos(w.e[c.id]), c.order)

\* lines 281-288
ChanceValidMoves(w, c, other) ==
    SelectSeq(free_moves(w.g, Pos(w.e[other]), c.order), LAMBDA q : q # Pos(w.e[c.id]))
    \o << Pos(w.e[other]) >>

\* weights that give staying in place no more than a move
EvenWeight(w, other, q) == move_weight

\* lines 308-318
MoveWeight(w, other, q) ==
    IF q = Pos(w.e[other])
    THEN IF is_bottom_row(w.g, w.e[other].y) THEN stay_weight_bottom ELSE stay_weight
    ELSE move_weight

\* line 321
RECURSIVE TotalWeight(_, _, _)
TotalWeight(w, other, moves) ==
    IF moves = << >> THEN 0
    ELSE MoveWeight(w, other, Head(moves)) + TotalWeight(w, other, Tail(moves))

\* line 327: probability < 0.01
Skipped(weight, total) == 100 * weight < total

\* expectimax_value, lines 169-370; c holds id, max_depth, order, goal, bottom.
\* Yields the value, the world left behind, and whether NameError was raised (the
\* world is then as it stood when the exception left the recursion).
RECURSIVE expectimax_value(_, _, _, _, _)
RECURSIVE ExpMaxMoves(_, _, _, _, _, _)
RECURSIVE ChanceMoves(_, _, _, _, _, _, _, _)

\* lines 242-247
ExpMaxAfter(w, c, ids, depth, moves, value, r) ==
    IF r.raised THEN r
    ELSE ExpMaxMoves(Restore(r.w, c.id, Pos(w.e[c.id])), c, ids, depth, Tail(moves),
                     FracMax(value, r.v))

\* lines 220-249
ExpMaxMoves(w, c, ids, depth, moves, value) ==
    IF moves = << >> THEN [ raised |-> FALSE, v |-> value, w |-> w ]
    ELSE ExpMaxAfter(w, c, ids, depth, moves, value,
                     expectimax_value(Relocate(w, c.id, Head(moves)), c, ids, depth + 1,
                                      IF ids # << >> THEN "chance" ELSE "max"))

\* lines 266-275, 333-342 and 351-360: the next interfering element at this
\* depth, or the element's MAX node one level down
NextInChain(w, c, remaining, depth) ==
    IF remaining # << >> THEN expectimax_value(w, c, remaining, depth, "chance")
    ELSE expectimax_value(w, c, << >>, depth + 1, "max")

\* lines 362-368
ChanceAfter(w, c, other, remaining, depth, moves, total_weight, total_value, r) ==
    IF r.raised THEN r
    ELSE ChanceMoves(IF Head(moves) = Pos(w.e[other]) THEN r.w
                     ELSE Restore(r.w, other, Pos(w.e[other])),
                     c, other, remaining, depth, Tail(moves), total_weight,
                     FracAdd(total_value,
                             FracTimes(r.v, MoveWeight(w, other, Head(moves)),
                                       total_weight)))

\* lines 324-370
ChanceMoves(w, c, other, remaining, depth, moves, total_weight, total_value) ==
    IF moves = << >> THEN [ raised |-> FALSE, v |-> total_value, w |-> w ]
    ELSE IF Skipped(MoveWeight(w, other, Head(moves)), total_weight)
    THEN ChanceMoves(w, c, other, remaining, depth, Tail(moves), total_weight, total_value)
    ELSE ChanceAfter(w, c, other, remaining, depth, moves, total_weight, total_value,
                     NextInChain(IF Head(moves) = Pos(w.e[other]) THEN w
                                 ELSE Relocate(w, other, Head(moves)),
                                 c, remaining, depth))

\* lines 214-217
ExpMaxNode(w, c, ids, depth, moves) ==
    IF moves = << >>
    THEN [ expectimax_evaluate_state(w, c.id, c.goal, ids, c.bottom)
             EXCEPT !.v = FracAdd(@, Whole(-stuck_penalty)) ]
    ELSE ExpMaxMoves(w, c, ids, depth, moves, Whole(-Infinity))

expectimax_value(w, c, ids, depth, node_type) ==
    IF depth >= c.max_depth
    THEN expectimax_evaluate_state(w, c.id, c.goal, ids, c.bottom)
    ELSE IF Pos(w.e[c.id]) = c.goal
    THEN [ raised |-> FALSE, v |-> Whole(goal_value), w |-> w ]
    ELSE IF node_type = "max"
    THEN ExpMaxNode(w, c, ids, depth, ExpMaxValidMoves(w, c))
    ELSE IF ids = << >> THEN expectimax_value(w, c, << >>, depth + 1, "max")
    ELSE IF Head(ids) \notin DOMAIN w.e THEN NextInChain(w, c, Tail(ids), depth)
    ELSE ChanceMoves(w, c, Head(ids), Tail(ids), depth,
                     ChanceValidMoves(w, c, Head(ids)),
                     TotalWeight(w, Head(ids), ChanceValidMoves(w, c, Head(ids))),
                     Whole(0))

\* what expectimax_pathfind hands back when the NameError leaves it
SearchRaised(w, nodes) ==
    [ raised |-> TRUE, path |-> NoPath, nodes |-> nodes, w |-> w, via |-> "NameError",
      cuts |-> 0 ]

\* lines 137-140
BetterExpMove(best, move, value) ==
    [ value |-> FracMax(best.value, value),
      move |-> IF FracLess(best.value, value) THEN move ELSE best.move,
      nodes |-> best.nodes + 1, cuts |-> 0 ]

\* lines 115-140: the root candidates in turn
RECURSIVE ExpRootMoves(_, _, _, _, _, _, _)
ExpRootAfter(w, c, ids, start, original, moves, best, r) ==
    IF r.raised THEN [ raised |-> TRUE, best |-> best, w |-> r.w ]
    ELSE ExpRootMoves(Restore(r.w, c.id, original), c, ids, start, original, Tail(moves),
                      BetterExpMove(best, Head(moves),
                                    FracAdd(r.v, Whole(IF c.bottom /\ Head(moves)[2] < start[2]
                                                       THEN 100 ELSE 0))))

ExpRootMoves(w, c, ids, start, original, moves, best) ==
    IF moves = << >> THEN [ raised |-> FALSE, best |-> best, w |-> w ]
    ELSE ExpRootAfter(w, c, ids, start, original, moves, best,
                      expectimax_value(Relocate(w, c.id, Head(moves)), c, ids, 1, "max"))

NoExpBest == [ value |-> Whole(-Infinity), move |-> NoPos, nodes |-> 0, cuts |-> 0 ]

\* lines 142-167
ExpFinish(r, id, start, goal, topo, bottom) ==
    IF r.raised THEN { SearchRaised(r.w, r.best.nodes) }
    ELSE IF r.best.move = NoPos
    THEN { SearchResult(NoPath, r.best.nodes, r.w, "no_best_move", 0) }
    ELSE IF bottom
    THEN { SearchResult(<< start, r.best.move >>, r.best.nodes, r.w, "first_step", 0) }
    ELSE AStarTail(r.w, id, start, goal, topo, r.best)

\* lines 70-91: the upward move a bottom-row element returns at once
ExpUpward(start, goal, topo, upward_moves) ==
    IF topo = "moore" /\ Len(upward_moves) > 1
    THEN IF /\ Abs(goal[1] - start[1]) > 1
            /\ SelectSeq(upward_moves,
                         LAMBDA q : \/ goal[1] > start[1] /\ q[1] > start[1]
                                    \/ goal[1] < start[1] /\ q[1] < start[1]) # << >>
         THEN Range(SelectSeq(upward_moves,
                              LAMBDA q : \/ goal[1] > start[1] /\ q[1] > start[1]
                                         \/ goal[1] < start[1] /\ q[1] < start[1]))
         ELSE { upward_moves[1] }
    ELSE IF << start[1], start[2] - 1 >> \in Range(upward_moves)
    THEN { << start[1], start[2] - 1 >> }
    ELSE { upward_moves[1] }

\* lines 64-167
ExpMoves(w, c, start, goal, topo, valid_moves, upward_moves) ==
    IF c.bottom /\ upward_moves # << >>
    THEN { SearchResult(<< start, q >>, 1, w, "upward", 0) :
           q \in ExpUpward(start, goal, topo, upward_moves) }
    ELSE IF valid_moves = << >> THEN { SearchResult(<< start >>, 1, w, "stuck", 0) }
    ELSE ExpFinish(ExpRootMoves(w, c,
                                find_interfering_elements(w.e, c.id, start, goal, c.bottom),
                                start, Pos(w.e[c.id]), valid_moves, NoExpBest),
                   c.id, start, goal, topo, c.bottom)

\* lines 41-46
expectimax_depth(els, max_depth) ==
    IF Cardinality(DOMAIN els) > 15 THEN 1
    ELSE IF Cardinality(DOMAIN els) > 10 THEN 2 ELSE max_depth

\* expectimax_pathfind, lines 6-167: the set of results it may return
expectimax_pathfind(w, start, goal, id, topo, order, max_depth) ==
    IF \/ ~is_valid_position(w.g, start[1], start[2])
       \/ ~is_valid_position(w.g, goal[1], goal[2])
    THEN { SearchResult(NoPath, 0, w, "invalid", 0) }
    ELSE IF is_wall(w.g, start[1], start[2]) \/ is_wall(w.g, goal[1], goal[2])
    THEN { SearchResult(NoPath, 0, w, "wall", 0) }
    ELSE IF start = goal THEN { SearchResult(<< start >>, 1, w, "at_goal", 0) }
    ELSE IF id \notin DOMAIN w.e THEN { SearchResult(NoPath, 0, w, "no_element", 0) }
    ELSE ExpMoves(w, [ id |-> id, max_depth |-> expectimax_depth(w.e, max_depth),
                       order |-> order, goal |-> goal,
                       bottom |-> is_bottom_row(w.g, w.e[id].y) ],
                  start, goal, topo, free_moves(w.g, start, order),
                  upward_of(free_moves(w.g, start, order), start[2]))

-----------------------------------------------------------------------------
(* The searches called on a grid with elements under way *)

\* the cells the elements of a search stand on: the lowest SearchRows rows
SearchCells(size) ==
    { p \in Positions(size[1], size[2]) :
        /\ p[1] >= boundary_size /\ p[1] < size[1] - boundary_size
        /\ p[2] < size[2] - boundary_size
        /\ p[2] >= size[2] - boundary_size - SearchRows }

\* the target shape: the row above those cells and the first cell of their top row
SearchShape(size) ==
    { p \in Positions(size[1], size[2]) :
        /\ p[1] >= boundary_size /\ p[1] < size[1] - boundary_size
        /\ \/ p[2] = size[2] - boundary_size - SearchRows - 1
           \/ p = << boundary_size, size[2] - boundary_size - SearchRows >> }

\* the order in which initialize_elements numbers the elements: bottom row first,
\* left to right
PlacedBefore(p, q) == p[2] > q[2] \/ (p[2] = q[2] /\ p[1] < q[1])

\* controller.add_element for each element in turn, element k at at[k]
PlaceAt(size, at) ==
    [ e |-> [ k \in DOMAIN at |->
                [ x |-> at[k][1], y |-> at[k][2],
                  target_x |-> -1, target_y |-> -1, has_target |-> FALSE ] ],
      g |-> [ NewGrid(size[1], size[2]) EXCEPT
                !.cell = [ p \in Positions(size[1], size[2]) |->
                             IF \E k \in DOMAIN at : at[k] = p
                             THEN CHOOSE k \in DOMAIN at : at[k] = p
                             ELSE NewGrid(size[1], size[2]).cell[p] ] ] ]

SearchInit ==
    /\ \E size \in SearchGridSizes, n \in 1..MaxAgents :
         \E at \in [ 0..(n - 1) -> SearchCells(size) ] :
           /\ \A i, j \in 0..(n - 1) : i < j => PlacedBefore(at[i], at[j])
           /\ grid = PlaceAt(size, at).g
           /\ target_positions = set_target_shape(PlaceAt(size, at).g, SearchShape(size))
           /\ elements \in assign_targets(PlaceAt(size, at).e,
                                          set_target_shape(PlaceAt(size, at).g,
                                                           SearchShape(size)))
           /\ stuck_counter = [ i \in 0..(n - 1) |-> 0 ]
           /\ position_history = [ i \in 0..(n - 1) |-> << >> ]
    /\ algorithm = "minimax" /\ topology = "vonNeumann"
    /\ movement = "sequential" /\ control_mode = "independent"
    /\ pc = "search"
    /\ current_step = 0 /\ reached_targets = {}
    /\ blocked_elements = {} /\ global_no_movement_counter = 0
    /\ paths = << >> /\ todo = << >> /\ step = 1
    /\ round_moves = << >> /\ n_moves = 0 /\ attempts = << >> /\ trace = {}
    /\ result = NoResult /\ search = NoSearch

\* the element ids a search is called with: the elements and one id that is none
SearchIds == DOMAIN elements \cup { Cardinality(DOMAIN elements) }

\* start cells: the element's own cell, a wall, a cell off the grid
Starts(id) ==
    IF id \in DOMAIN elements THEN { Pos(elements[id]), << 0, 0 >>, << -1, 0 >> }
    ELSE { << boundary_size, grid.height - boundary_size - 1 >> }

\* goal cells: the element's target, a wall, a cell off the grid
Goals(id) ==
    IF id \in DOMAIN elements /\ has_target(elements[id])
    THEN { Target(elements[id]), << 0, 0 >>, << grid.width, 1 >> }
    ELSE { << boundary_size, grid.height - boundary_size - SearchRows - 1 >> }

SearchUnchanged ==
    UNCHANGED << target_positions, control_mode, movement, current_step, reached_targets,
                 stuck_counter, position_history, blocked_elements,
                 global_no_movement_counter, paths, todo, step, round_moves, n_moves,
                 attempts, trace, result >>

\* the record of a call of one of the pathfinders
Called(kind, id, start, goal, max_depth, order, r) ==
    /\ grid' = r.w.g /\ elements' = r.w.e
    /\ search' = [ kind |-> kind, before |-> World(grid, elements), id |-> id,
                   start |-> start, goal |-> goal, max_depth |-> max_depth,
                   order |-> order, raised |-> r.raised, path |-> r.path,
                   nodes |-> r.nodes, via |-> r.via, cuts |-> r.cuts,
                   value |-> 0, unpruned |-> 0 ]
    /\ pc' = "searched"

MinimaxPathfind ==
    /\ pc = "search"
    /\ \E id \in SearchIds, topo \in Topologies, max_depth \in 1..MaxDepth :
         \E start \in Starts(id), goal \in Goals(id), order \in NeighborOrders(topo) :
           /\ \E r \in minimax_pathfind(World(grid, elements), start, goal, id, topo,
                                        order, max_depth) :
                Called("minimax_pathfind", id, start, goal, max_depth, order, r)
           /\ algorithm' = "minimax" /\ topology' = topo
    /\ SearchUnchanged

ExpectimaxPathfind ==
    /\ pc = "search"
    /\ \E id \in SearchIds, topo \in Topologies, max_depth \in 1..MaxDepth :
         \E start \in Starts(id), goal \in Goals(id), order \in NeighborOrders(topo) :
           /\ \E r \in expectimax_pathfind(World(grid, elements), start, goal, id, topo,
                                           order, max_depth) :
                Called("expectimax_pathfind", id, start, goal, max_depth, order, r)
           /\ algorithm' = "expectimax" /\ topology' = topo
    /\ SearchUnchanged

\* the arguments of a call of minimax_value for element id on its way to its target
ValueContext(id, order, max_depth, prune) ==
    [ id |-> id, max_depth |-> max_depth, order |-> order, goal |-> Target(elements[id]),
      brp |-> elements[id].y >= bottom_row_from, prune |-> prune ]

FullWindow(id, order, max_depth, depth, is_max, prune) ==
    minimax_value(World(grid, elements), ValueContext(id, order, max_depth, prune),
                  find_potential_adversaries(elements, id, Pos(elements[id]),
                                             Target(elements[id]),
                                             elements[id].y >= bottom_row_from),
                  depth, is_max, -Infinity, Infinity)

ValueCalled(id, order, max_depth, depth, is_max, pruned, plain) ==
    /\ grid' = pruned.w.g /\ elements' = pruned.w.e
    /\ search' = [ kind |-> "minimax_value", before |-> World(grid, elements), id |-> id,
                   start |-> Pos(elements[id]), goal |-> Target(elements[id]),
                   max_depth |-> max_depth, order |-> order, raised |-> FALSE,
                   path |-> NoPath, nodes |-> depth,
                   via |-> IF is_max THEN "max" ELSE "min", cuts |-> pruned.cuts,
                   value |-> pruned.v, unpruned |-> plain.v ]
    /\ pc' = "searched"

\* minimax_value with the full window, and the same recursion without the cut-offs
MinimaxValue ==
    /\ pc = "search"
    /\ \E id \in DOMAIN elements, topo \in Topologies, max_depth \in 1..MaxDepth :
         \E order \in NeighborOrders(topo), depth \in 0..1, is_max \in BOOLEAN :
           /\ has_target(elements[id])
           /\ depth <= max_depth
           /\ ValueCalled(id, order, max_depth, depth, is_max,
                          FullWindow(id, order, max_depth, depth, is_max, TRUE),
                          FullWindow(id, order, max_depth, depth, is_max, FALSE))
           /\ algorithm' = "minimax" /\ topology' = topo
    /\ SearchUnchanged

\* the value expectimax_value gives the position reached by each move of a list
LeafValues(w, c, other, moves) ==
    [ k \in DOMAIN moves |->
        expectimax_evaluate_state(IF moves[k] = Pos(w.e[other]) THEN w
                                  ELSE Relocate(w, other, moves[k]),
                                  c.id, c.goal, << >>, c.bottom).v ]

ChanceCalled(c, other, moves, r) ==
    /\ grid' = r.w.g /\ elements' = r.w.e
    /\ search' = [ kind |-> "chance_node", before |-> World(grid, elements), id |-> c.id,
                   other |-> other, moves |-> moves,
                   weights |-> [ k \in DOMAIN moves |->
                                   MoveWeight(World(grid, elements), other, moves[k]) ],
                   total |-> TotalWeight(World(grid, elements), other, moves),
                   leaves |-> LeafValues(World(grid, elements), c, other, moves),
                   raised |-> r.raised, value |-> r.v ]
    /\ pc' = "searched"

\* expectimax_value at a chance node of the last level before the leaves: the
\* searching element id stands off its goal and above the bottom rows, and the
\* one interfering element other is about to move
ChanceNode ==
    /\ pc = "search"
    /\ \E id \in DOMAIN elements, other \in DOMAIN elements, topo \in Topologies :
         \E order \in NeighborOrders(topo), max_depth \in 1..MaxDepth :
           /\ id # other
           /\ has_target(elements[id]) /\ ~AtTarget(elements[id])
           /\ ~is_bottom_row(grid, elements[id].y)
           /\ ChanceCalled([ id |-> id, max_depth |-> max_depth, order |-> order,
                             goal |-> Target(elements[id]), bottom |-> FALSE ],
                           other,
                           ChanceValidMoves(World(grid, elements),
                                            [ id |-> id, order |-> order ], other),
                           expectimax_value(World(grid, elements),
                                            [ id |-> id, max_depth |-> max_depth,
                                              order |-> order,
                                              goal |-> Target(elements[id]),
                                              bottom |-> FALSE ],
                                            << other >>, max_depth - 1, "chance"))
           /\ algorithm' = "expectimax" /\ topology' = topo
    /\ SearchUnchanged

\* expectimax_value at a MAX node of element id on its way to its target, the
\* interfering elements being those the root of the search would pass
ExpectimaxValue ==
    /\ pc = "search"
    /\ \E id \in DOMAIN elements, topo \in Topologies, max_depth \in 1..MaxDepth :
         \E order \in NeighborOrders(topo), depth \in 0..1 :
           /\ has_target(elements[id])
           /\ depth <= max_depth
           /\ \E r \in { expectimax_value(
                            World(grid, elements),
                            [ id |-> id, max_depth |-> max_depth, order |-> order,
                              goal |-> Target(elements[id]),
                              bottom |-> is_bottom_row(grid, elements[id].y) ],
                            find_interfering_elements(elements, id, Pos(elements[id]),
                                                      Target(elements[id]),
                                                      is_bottom_row(grid, elements[id].y)),
                            depth, "max") } :
                /\ grid' = r.w.g /\ elements' = r.w.e
                /\ search' = [ kind |-> "expectimax_value",
                               before |-> World(grid, elements), id |-> id,
                               goal |-> Target(elements[id]), max_depth |-> max_depth,
                               order |-> order, nodes |-> depth, raised |-> r.raised,
                               value |-> r.v ]
           /\ pc' = "searched"
           /\ algorithm' = "expectimax" /\ topology' = topo
    /\ SearchUnchanged

SearchNext ==
    \/ MinimaxPathfind
    \/ ExpectimaxPathfind
    \/ MinimaxValue
    \/ ChanceNode
    \/ ExpectimaxValue

SearchSpec == SearchInit /\ [][SearchNext]_vars

-----------------------------------------------------------------------------
(* _detect_movement_cycles called on elements that are off their targets *)

MaxCycleElements == 4     \* most elements handed to _detect_movement_cycles
CycleGridSizes == { <<4, 4>>, <<6, 3>> }

\* the cells inside the wall ring
Interior(size) ==
    { p \in Positions(size[1], size[2]) :
        /\ p[1] >= boundary_size /\ p[1] < size[1] - boundary_size
        /\ p[2] >= boundary_size /\ p[2] < size[2] - boundary_size }

\* the lists without repetition of all the members of S
Orders(S) ==
    { s \in [ 1..Cardinality(S) -> S ] : \A i, j \in DOMAIN s : i # j => s[i] # s[j] }

\* elements on pairwise different cells with pairwise different targets
CycleInit ==
    /\ \E size \in CycleGridSizes, n \in 2..MaxCycleElements :
         \E at \in [ 0..(n - 1) -> Interior(size) ], to \in [ 0..(n - 1) -> Interior(size) ] :
           /\ \A i, j \in 0..(n - 1) : i < j => (at[i] # at[j] /\ to[i] # to[j])
           /\ grid = PlaceAt(size, at).g
           /\ target_positions = Range([ k \in 1..n |-> to[k - 1] ])
           /\ elements = [ k \in 0..(n - 1) |->
                             [ x |-> at[k][1], y |-> at[k][2],
                               target_x |-> to[k][1], target_y |-> to[k][2],
                               has_target |-> TRUE ] ]
           /\ stuck_counter = [ i \in 0..(n - 1) |-> 0 ]
           /\ position_history = [ i \in 0..(n - 1) |-> << >> ]
    /\ algorithm = "astar" /\ topology = "vonNeumann"
    /\ movement = "sequential" /\ control_mode = "independent"
    /\ pc = "cycles"
    /\ current_step = 0 /\ reached_targets = {}
    /\ blocked_elements = {} /\ global_no_movement_counter = 0
    /\ paths = << >> /\ todo = << >> /\ step = 1
    /\ round_moves = << >> /\ n_moves = 0 /\ attempts = << >> /\ trace = {}
    /\ result = NoResult /\ search = NoSearch

\* _detect_movement_cycles(active_elements), the active elements in any order
DetectMovementCycles ==
    /\ pc = "cycles"
    /\ \E active \in Orders(Range(ActiveElements(elements))) :
         search' = [ kind |-> "detect_movement_cycles", active |-> active,
                     cycles |-> detect_movement_cycles(elements, active) ]
    /\ pc' = "detected"
    /\ UNCHANGED << grid, elements, algorithm, topology >>
    /\ SearchUnchanged

\* _swap_targets_for_blocked_elements called with a set of blocked elements
SwapTargets ==
    /\ pc = "cycles"
    /\ \E blocked \in SUBSET DOMAIN elements :
         /\ blocked # {}
         /\ elements' = swap_targets_for_blocked_elements(elements, blocked).e
         /\ search' = [ kind |-> "swap_targets", blocked |-> blocked, before |-> elements,
                        ok |-> swap_targets_for_blocked_elements(elements, blocked).ok ]
    /\ pc' = "swapped"
    /\ UNCHANGED << grid, target_positions, algorithm, topology, movement, control_mode,
                    current_step, reached_targets, stuck_counter, position_history,
                    blocked_elements, global_no_movement_counter, paths, todo, step,
                    round_moves, n_moves, attempts, trace, result >>

CycleNext == DetectMovementCycles \/ SwapTargets

CycleSpec == CycleInit /\ [][CycleNext]_vars

-----------------------------------------------------------------------------
(* The result of a run, computed from the elements as either loop leaves them *)

MaxReturnElements == 20   \* most elements on the grid when a loop is left
ReturnRows == 2           \* rows inside the wall ring of the grids explored

\* n elements side by side on the bottom row, as initialize_elements puts them:
\* the first k stand on their targets, those from k up to j have the cell above
\* them as target, those from j on have no target
ReturnElements(h, n, j, k) ==
    [ i \in 0..(n - 1) |->
        [ x |-> boundary_size + i, y |-> h - boundary_size - 1,
          target_x |-> IF i < j THEN boundary_size + i ELSE -1,
          target_y |-> IF i < k THEN h - boundary_size - 1
                       ELSE IF i < j THEN h - boundary_size - 2 ELSE -1,
          has_target |-> i < j ] ]

\* either loop of transform() has just been left
ReturnInit ==
    /\ \E n \in 1..MaxReturnElements, j \in 0..MaxReturnElements, k \in 0..MaxReturnElements :
         /\ k <= j /\ j <= n
         /\ grid = initialize_elements(n + 2 * boundary_size,
                                       ReturnRows + 2 * boundary_size, n).g
         /\ elements = ReturnElements(ReturnRows + 2 * boundary_size, n, j, k)
         /\ target_positions = { Target(ReturnElements(ReturnRows + 2 * boundary_size,
                                                       n, j, k)[i]) : i \in 0..(j - 1) }
         /\ stuck_counter = [ i \in 0..(n - 1) |-> 0 ]
         /\ position_history = [ i \in 0..(n - 1) |-> << >> ]
    /\ algorithm = "astar" /\ topology = "vonNeumann" /\ movement = "sequential"
    /\ \/ control_mode = "independent" /\ pc = "finish"
       \/ control_mode = "centralized" /\ pc = "centralized"
    /\ current_step = 0 /\ reached_targets = {}
    /\ blocked_elements = {} /\ global_no_movement_counter = 0
    /\ paths = << >> /\ todo = << >> /\ step = 1
    /\ round_moves = << >> /\ n_moves = 0 /\ attempts = << >> /\ trace = {}
    /\ result = NoResult /\ search = NoSearch

ReturnNext ==
    \/ IndependentReturn
    \/ CentralizedReturn

ReturnSpec == ReturnInit /\ [][ReturnNext]_vars

-----------------------------------------------------------------------------
(* Properties of transform() *)

Destinations(as) == { as[k].to : k \in DOMAIN as }
Committed(as) == SelectSeq(as, LAMBDA a : a.ok)
FullyPacked(g) == \A p \in DOMAIN g.cell : g.cell[p] # EMPTY
Ended == pc \in { "done", "raised" }
Returned == pc = "done" /\ result.returned

\* C1: in every state of a transform() run, and after each grid call inside a
\* step (the calls of the deadlock helpers included), every element stands on the
\* one cell the grid marks with its id and no cell is marked for two elements.
C1_PositionsMatchOccupancy ==
    /\ I1(grid, elements)
    /\ \A k \in DOMAIN attempts : attempts[k].i1

\* a deadlock helper has just moved an element after the moves of the tick
C1_Witness_HelperMoved ==
    /\ "deadlock_broken" \in trace
    /\ Len(attempts) >= 2
    /\ I1(grid, elements)

\* C3: the moves one tick of the independent loop hands to the grid go to
\* pairwise different cells and all commit; the moves one round of the centralized
\* parallel loop commits go to pairwise different cells.
C3_OneCommittedMovePerCell ==
    /\ control_mode = "independent" =>
         /\ Cardinality(Destinations(attempts)) = Len(attempts)
         /\ \A k \in DOMAIN attempts : attempts[k].ok
    /\ "round" \in trace =>
         Cardinality(Destinations(Committed(attempts))) = Len(Committed(attempts))

\* two elements asked for the same cell in a tick and one of them got it
C3_Witness_ConflictResolved ==
    /\ control_mode = "independent"
    /\ "reservation_conflict" \in trace
    /\ Len(attempts) >= 1

\* C4: every grid move either succeeds, with the cell array and the element's
\* position both updated, or fails, with neither changed; it fails exactly when
\* the destination is out of bounds, a wall or occupied.
C4_MoveIsAtomic ==
    \A k \in DOMAIN attempts :
        /\ attempts[k].ok => attempts[k].moved
        /\ ~attempts[k].ok => attempts[k].kept
        /\ attempts[k].ok <=> attempts[k].dest = EMPTY

\* a step in which one grid move succeeded and another was refused
C4_Witness_MovedAndRefused ==
    /\ \E k \in DOMAIN attempts : attempts[k].ok /\ attempts[k].moved
    /\ \E k \in DOMAIN attempts : ~attempts[k].ok /\ attempts[k].kept

\* C5: on a fully packed grid with an element off its target, transform() raises
\* nothing and returns success false with no move recorded.
C5_PackedGridFailsQuietly ==
    (FullyPacked(grid) /\ ~AllAtTarget(elements)) =>
        /\ pc # "raised"
        /\ pc = "done" => ~result.success /\ result.n_moves = 0

\* C6: an independent run that has ended has returned a result, which reports
\* success false unless every element is on its target; the loop ran at most
\* max_steps iterations.
C6_IndependentRunReturns ==
    (control_mode = "independent" /\ pc \notin { "idle", "independent", "finish" }) =>
        /\ Returned
        /\ current_step <= max_steps
        /\ result.success => AllAtTarget(elements)

\* C7: once the global no-movement counter has reached its threshold the loop
\* either goes on or is left with a result being reported; it is left at the
\* latest when the counter reaches twice the threshold.
C7_PersistentDeadlockEndsRun ==
    (control_mode = "independent"
       /\ global_no_movement_counter >= max_no_movement_threshold) =>
        /\ pc \in { "independent", "finish", "done" }
        /\ global_no_movement_counter >= 2 * max_no_movement_threshold
             => pc \in { "finish", "done" }

\* two elements side by side on a one-row corridor whose targets are the two
\* cells they start on (each other's cells when the assignment crosses them)
CorridorSwap ==
    /\ grid.height = 2 * boundary_size + 1
    /\ DOMAIN elements = { 0, 1 }
    /\ topology = "vonNeumann"
    /\ target_positions = { << boundary_size, boundary_size >>,
                            << boundary_size + 1, boundary_size >> }

\* C8: a transform() run on the corridor with swapped targets ends with every
\* element on its target (success_rate 1.0).
C8_CorridorSwapSucceeds ==
    (CorridorSwap /\ Ended) =>
        /\ Returned
        /\ result.at_target = result.total

\* C9: no two elements hold the same target cell and no target is a wall or off
\* the grid, at every point of a run.
C9_TargetsInjectiveOffWalls ==
    /\ \A i, j \in DOMAIN elements :
         (i # j /\ has_target(elements[i]) /\ has_target(elements[j]))
           => Target(elements[i]) # Target(elements[j])
    /\ \A i \in DOMAIN elements :
         has_target(elements[i]) =>
           /\ is_valid_position(grid, elements[i].target_x, elements[i].target_y)
           /\ ~is_wall(grid, elements[i].target_x, elements[i].target_y)

\* the blocked elements have just had their targets swapped
C9_Witness_AfterSwap ==
    /\ "swap" \in trace
    /\ \A i \in DOMAIN elements : has_target(elements[i])

-----------------------------------------------------------------------------
(* Properties of the searches *)

PathfindReturned ==
    /\ pc = "searched"
    /\ search.kind \in { "minimax_pathfind", "expectimax_pathfind" }
    /\ ~search.raised

\* C2: when minimax_pathfind or expectimax_pathfind has returned, by whichever
\* return statement, every element stands where it stood when the call began and
\* the grid marks the same cells.
C2_SearchRestoresWorld ==
    PathfindReturned => (grid = search.before.g /\ elements = search.before.e)

\* minimax_pathfind has returned through the A* tail after a search with
\* adversaries in which a cut-off skipped a move
C2_Witness_ReturnedAfterCutOff ==
    /\ PathfindReturned
    /\ search.kind = "minimax_pathfind"
    /\ search.via = "astar_tail"
    /\ search.cuts > 0
    /\ Len(search.path) > 2
    /\ grid = search.before.g /\ elements = search.before.e

\* C10: minimax_value called with alpha = -infinity and beta = +infinity returns
\* the value the same recursion returns with both cut-offs disabled.
C10_PruningKeepsValue ==
    (pc = "searched" /\ search.kind = "minimax_value") => search.value = search.unpruned

\* a call at depth 0 with max_depth 3 and three agents in which a cut-off skipped a move
C10_Witness_CutOffTaken ==
    /\ pc = "searched" /\ search.kind = "minimax_value"
    /\ search.cuts > 0
    /\ search.max_depth = MaxDepth /\ search.nodes = 0
    /\ Cardinality(DOMAIN elements) = MaxAgents
    /\ search.value = search.unpruned

\* the free neighbours of start that are strictly nearer to the goal than start
ImprovingMoves(g, start, goal, topo) ==
    { q \in FreeNeighbors(g, start[1], start[2], topo) :
        Manhattan(q, goal) < Manhattan(start, goal) }

\* a pathfinder was called for the only element of the grid, from its own cell
\* towards a free goal, with exactly one legal first move that reduces the distance
SoleImprovingMove ==
    /\ pc = "searched"
    /\ search.kind \in { "minimax_pathfind", "expectimax_pathfind" }
    /\ DOMAIN search.before.e = { 0 } /\ search.id = 0
    /\ search.start = Pos(search.before.e[0])
    /\ is_valid_position(search.before.g, search.goal[1], search.goal[2])
    /\ is_empty(search.before.g, search.goal[1], search.goal[2])
    /\ Cardinality(ImprovingMoves(search.before.g, search.start, search.goal, topology)) = 1

\* C11: with no other agent on the grid and depth at least 1, when exactly one
\* legal first move strictly reduces the Manhattan distance to the goal, both
\* minimax_pathfind and expectimax_pathfind return a path whose first move it is.
C11_SoleImprovingMoveIsFirstStep ==
    SoleImprovingMove =>
        /\ ~search.raised
        /\ search.path # NoPath
        /\ Len(search.path) >= 2
        /\ search.path[2] \in ImprovingMoves(search.before.g, search.start, search.goal,
                                             topology)

-----------------------------------------------------------------------------
(* Properties of _detect_movement_cycles *)

\* elements a and b each stand on the other's target
MutuallyBlocking(a, b) ==
    /\ a # b
    /\ Pos(elements[a]) = Target(elements[b])
    /\ Pos(elements[b]) = Target(elements[a])

\* C12: whenever two active elements each stand on the other's target,
\* _detect_movement_cycles returns a cycle that contains both ids, whatever other
\* active elements there are and in whatever order they are listed.
C12_MutualBlockIsReported ==
    pc = "detected" =>
        \A a, b \in DOMAIN elements :
            MutuallyBlocking(a, b) =>
                \E k \in DOMAIN search.cycles :
                    { a, b } \subseteq Range(search.cycles[k])

\* four active elements, two of them on each other's targets and on different
\* rows and columns, reported in a cycle
C12_Witness_PairAmongFour ==
    /\ pc = "detected"
    /\ Len(search.active) = MaxCycleElements
    /\ \E a, b \in DOMAIN elements :
         /\ MutuallyBlocking(a, b)
         /\ elements[a].x # elements[b].x /\ elements[a].y # elements[b].y
         /\ \E k \in DOMAIN search.cycles : { a, b } \subseteq Range(search.cycles[k])

-----------------------------------------------------------------------------
(* Properties of the chance nodes of expectimax_value *)

\* the sum of weight / total times leaf value over the moves from k on whose
\* probability is at least 0.01
RECURSIVE WeightedSum(_, _, _, _)
WeightedSum(weights, total, leaves, k) ==
    IF k > Len(weights) THEN Whole(0)
    ELSE IF 100 * weights[k] < total THEN WeightedSum(weights, total, leaves, k + 1)
    ELSE FracAdd(FracTimes(leaves[k], weights[k], total),
                 WeightedSum(weights, total, leaves, k + 1))

RECURSIVE SumOf(_)
SumOf(ws) == IF ws = << >> THEN 0 ELSE Head(ws) + SumOf(Tail(ws))

\* C13: at a chance node the stay move weighs 3.0 when the chance agent is in the
\* bottom 3 rows and 1.5 otherwise, every other move weighs 1.0 (all doubled
\* here: 6, 3, 2), the weights add up to total_weight, so that the probabilities
\* add up to 1, and the value is the sum of probability times value over exactly
\* the moves whose probability is at least 0.01.
C13_ChanceWeightsNormalised ==
    (pc = "searched" /\ search.kind = "chance_node") =>
        /\ \A k \in DOMAIN search.moves :
             search.weights[k] =
               IF search.moves[k] = Pos(search.before.e[search.other])
               THEN IF search.before.e[search.other].y >= search.before.g.height - 3
                    THEN 6 ELSE 3
               ELSE 2
        /\ search.total > 0
        /\ SumOf(search.weights) = search.total
        /\ ~search.raised
        /\ search.value = WeightedSum(search.weights, search.total, search.leaves, 1)

\* a chance agent of the bottom rows with three moves besides staying, and one
\* above the bottom rows, were weighed
C13_Witness_BottomRowAgent ==
    /\ pc = "searched" /\ search.kind = "chance_node"
    /\ search.before.e[search.other].y >= search.before.g.height - 3
    /\ Len(search.moves) >= 4
    /\ search.weights[Len(search.moves)] = 6
    /\ search.value = WeightedSum(search.weights, search.total, search.leaves, 1)
    /\ search.value # Whole(0)

-----------------------------------------------------------------------------
(* Properties of the result *)

TargetedElements == { i \in DOMAIN elements : has_target(elements[i]) }
ElementsOnTarget == { i \in DOMAIN elements : AtTarget(elements[i]) }

\* C14: the success flag of an independent run is true exactly when at least 95%
\* of the elements that have a target are on it.
C14_IndependentSuccessFrom95Percent ==
    (pc = "done" /\ control_mode = "independent" /\ result.returned) =>
        (result.success <=>
            /\ Cardinality(TargetedElements) > 0
            /\ 100 * Cardinality(ElementsOnTarget) >= 95 * Cardinality(TargetedElements))

\* C15: the result of a centralized run counts, in the state transform() returns
\* in, the elements that have a target and those of them that are on it
\* (success_rate is the one over the other), and success is true only if every
\* element that has a target is on it.
C15_CentralizedResultCountsFinalState ==
    (pc = "done" /\ control_mode = "centralized" /\ result.returned) =>
        /\ result.total = Cardinality(TargetedElements)
        /\ result.at_target = Cardinality(ElementsOnTarget)
        /\ result.success => TargetedElements \subseteq ElementsOnTarget

\* a centralized run returned with 19 of 20 targeted elements on their targets
C15_Witness_OneElementShort ==
    /\ pc = "done" /\ control_mode = "centralized" /\ result.returned
    /\ Cardinality(TargetedElements) = MaxReturnElements
    /\ result.at_target = MaxReturnElements - 1
    /\ ~result.success

-----------------------------------------------------------------------------
(* Properties of the algorithm names *)

\* the grid and the elements as initialize_elements left them before transform()
AsInitialized ==
    LET placed == initialize_elements(grid.width, grid.height, Cardinality(DOMAIN elements))
    IN /\ grid = placed.g
       /\ \A i \in DOMAIN elements : Pos(elements[i]) = Pos(placed.e[i])

\* C16: with an algorithm name that find_path does not know, find_path returns
\* (None, 0) for every element, and transform() raises nothing, moves nothing,
\* and returns a result with success false that carries a message.
C16_UnknownAlgorithmRejected ==
    (pc # "idle" /\ algorithm = "dijkstra") =>
        /\ \A i \in DOMAIN elements :
             find_path(remove_element(grid, elements[i]), Pos(elements[i]),
                       Target(elements[i]), algorithm, topology) = { NoPath }
        /\ pc # "raised"
        /\ AsInitialized
        /\ pc = "done" => (result.returned /\ ~result.success /\ result.message)

\* element i has a target it is not on, and the baseline pathfinder, called the
\* way the loops call it, finds a path of at least one step to it
HasPathToTarget(i) ==
    /\ has_target(elements[i]) /\ ~AtTarget(elements[i])
    /\ \E q \in find_path(remove_element(grid, elements[i]), Pos(elements[i]),
                          Target(elements[i]), "astar", topology) : q # NoPath

\* C17: when transform() runs with algorithm "minimax" (or "expectimax"), the
\* path request of an element that can reach its target is answered with a path
\* by the search engine, not rejected as an unknown algorithm with (None, 0).
C17_AdversarialSearchAnswers ==
    (pc \in { "independent", "centralized" } /\ algorithm = "minimax") =>
        \A i \in DOMAIN elements :
            HasPathToTarget(i) =>
                NoPath \notin find_path(remove_element(grid, elements[i]),
                                        Pos(elements[i]), Target(elements[i]),
                                        algorithm, topology)

\* a cell the pathfinders refuse as start or goal: off the grid, or a wall
Refused(g, p) == ~is_valid_position(g, p[1], p[2]) \/ is_wall(g, p[1], p[2])

PathfinderReturned ==
    pc = "searched" /\ search.kind \in { "minimax_pathfind", "expectimax_pathfind" }

\* C18: minimax_pathfind and expectimax_pathfind return (None, 0), the grid
\* and the elements untouched, when the start or the goal is off the grid or a
\* wall; with an admissible start that is the goal they return the path [start].
C18_RefusedEndpointsAndTrivialPath ==
    PathfinderReturned =>
        /\ (Refused(search.before.g, search.start) \/ Refused(search.before.g, search.goal))
             => /\ search.path = NoPath /\ search.nodes = 0 /\ ~search.raised
                /\ World(grid, elements) = search.before
        /\ (/\ ~Refused(search.before.g, search.start)
            /\ search.start = search.goal)
             => /\ search.path = << search.start >> /\ ~search.raised
                /\ World(grid, elements) = search.before

C18_Witness_WallGoal ==
    /\ PathfinderReturned /\ search.kind = "minimax_pathfind"
    /\ search.id \in DOMAIN search.before.e
    /\ search.start = Pos(search.before.e[search.id])
    /\ is_valid_position(search.before.g, search.goal[1], search.goal[2])
    /\ is_wall(search.before.g, search.goal[1], search.goal[2])
    /\ search.path = NoPath

\* the decisions of the tick about to run: lines 539-750 applied to the elements
\* in dictionary order, after the target swaps of lines 527-536
TickDecisions ==
    LET sw == SwapStage(elements, current_step, stuck_counter, position_history,
                        blocked_elements, topology)
    IN DecideAll(grid, sw.e, SetToSeq(DOMAIN elements), reached_targets, sw.hist,
                 sw.stuck, algorithm, topology)

TickAhead == pc = "independent" /\ current_step < max_steps /\ ~AllAtTarget(elements)

\* no cell holds two elements
NoSharedCell(els) == \A i, j \in DOMAIN els : i # j => Pos(els[i]) # Pos(els[j])

\* C19: in independent mode every element's decision of a tick is taken on
\* the grid the tick started with (each decision hands the occupancy on as it
\* found it), the moves are committed afterwards, one per reserved cell, and
\* after a tick no cell holds two elements.
C19_DecisionsShareOneOccupancy ==
    /\ TickAhead => LET ds == TickDecisions IN \A k \in DOMAIN ds : ds[k].g = grid
    /\ control_mode = "independent" =>
         /\ NoSharedCell(elements)
         /\ I1(grid, elements)
         /\ \A k \in DOMAIN attempts : attempts[k].ok /\ attempts[k].i1

\* a tick has committed moves, and in the next one two elements plan a path
C19_Witness_TwoPlanners ==
    /\ TickAhead /\ current_step >= 1 /\ Len(attempts) >= 1
    /\ Cardinality({ k \in DOMAIN TickDecisions : TickDecisions[k].kind = "plan" }) >= 2
    /\ NoSharedCell(elements)

-----------------------------------------------------------------------------
(* transform() for one agent put on a cell of its own, with a target of its own *)

ScenarioGridSizes == { <<4, 4>>, <<5, 5>> }

\* Grid(width, height); controller.add_element(0, x, y) on an interior cell;
\* controller.set_target_positions([t]) with any cell of the grid
ScenarioInit ==
    /\ \E size \in ScenarioGridSizes :
         \E at \in [ {0} -> Interior(size) ], t \in Positions(size[1], size[2]) :
           /\ grid = PlaceAt(size, at).g
           /\ elements = PlaceAt(size, at).e
           /\ target_positions = { t }
    /\ algorithm = "astar" /\ topology = "vonNeumann"
    /\ movement = "sequential" /\ control_mode = "centralized"
    /\ pc = "idle"
    /\ current_step = 0 /\ reached_targets = {}
    /\ stuck_counter = [ i \in {0} |-> 0 ]
    /\ position_history = [ i \in {0} |-> << >> ]
    /\ blocked_elements = {} /\ global_no_movement_counter = 0
    /\ paths = << >> /\ todo = << >> /\ step = 1
    /\ round_moves = << >> /\ n_moves = 0 /\ attempts = << >> /\ trace = {}
    /\ result = NoResult /\ search = NoSearch

\* the centralized loop only: a run started in independent mode is not followed
ScenarioNext ==
    \/ transform
    \/ CentralizedPlan
    \/ CentralizedRound
    \/ CentralizedReturn

ScenarioSpec == ScenarioInit /\ [][ScenarioNext]_vars

\* result["paths"] as transform() returns it: line 150 stores the dictionary of
\* line 127, which no loop fills (line 163 binds the name anew inside
\* _transform_centralized, and _transform_independent is not handed it)
ReturnedPaths == << >>

\* the cell the only agent stood on when transform() was called with its defaults
StartedFrom ==
    IF paths = << >> THEN Pos(elements[0]) ELSE paths[1].path[1]

\* transform(algorithm="astar", topology="vonNeumann") has returned for one agent
\* that started on cell from with target to, on a grid of the given size
ScenarioRun(size, from, to) ==
    /\ Returned
    /\ grid.width = size[1] /\ grid.height = size[2]
    /\ DOMAIN elements = {0}
    /\ algorithm = "astar" /\ topology = "vonNeumann"
    /\ movement = "sequential" /\ control_mode = "centralized"
    /\ has_target(elements[0]) /\ Target(elements[0]) = to
    /\ StartedFrom = from

\* C20: on a 4x4 grid with one agent at (1,1) whose target is (3,3), von Neumann
\* topology and A*, transform() plans a path of 5 cells for the agent, walks it
\* to the target, returns the path and reports success.
C20_OneAgentScenario ==
    ScenarioRun(<<4, 4>>, <<1, 1>>, <<3, 3>>) =>
        /\ result.success
        /\ AtTarget(elements[0])
        /\ Len(paths) = 1 /\ Len(paths[1].path) = 5
        /\ \E k \in DOMAIN ReturnedPaths : Len(ReturnedPaths[k].path) = 5

-----------------------------------------------------------------------------
(* Properties of the value functions and of the evaluation *)

\* minimax_value or expectimax_value was called with the searching element
\* standing on its goal
ValueAtGoal ==
    /\ pc = "searched" /\ search.kind \in { "minimax_value", "expectimax_value" }
    /\ Pos(search.before.e[search.id]) = search.goal

\* C21: minimax_value and expectimax_value give every node in which the
\* searching element stands on its goal the value 1000, at any depth, the depth
\* limit included.
C21_GoalNodeIsWorth1000 ==
    ValueAtGoal =>
        IF search.kind = "minimax_value" THEN search.value = goal_value
        ELSE ~search.raised /\ search.value = Whole(goal_value)

\* a pathfinder was called for an element of the bottom 3 rows, from its own
\* cell towards an admissible goal elsewhere, with a free cell one row up
BottomRowCall ==
    /\ PathfindReturned
    /\ search.id \in DOMAIN search.before.e
    /\ search.start = Pos(search.before.e[search.id])
    /\ ~Refused(search.before.g, search.goal)
    /\ search.start # search.goal
    /\ search.start[2] >= search.before.g.height - 3
    /\ \E q \in FreeNeighbors(search.before.g, search.start[1], search.start[2], topology) :
         q[2] < search.start[2]

\* C22: for an element of the bottom 3 rows with a legal upward move,
\* minimax_pathfind and expectimax_pathfind return [start, upward cell] at once,
\* without running the search.
C22_BottomRowFastPath ==
    BottomRowCall =>
        /\ ~search.raised
        /\ search.via \in { "upward", "random_diagonal" }
        /\ search.nodes = 1
        /\ Len(search.path) = 2 /\ search.path[1] = search.start
        /\ search.path[2] \in FreeNeighbors(search.before.g, search.start[1],
                                            search.start[2], topology)
        /\ search.path[2][2] < search.start[2]

-----------------------------------------------------------------------------
(* Properties of the commits of a tick *)

ConflictGridSizes == { <<5, 4>> }
MaxStuck == 1             \* largest stuck counter of the elements drawn

\* two elements off their targets on cells of their own, with targets of their
\* own and stuck counters as an earlier tick may have left them
ConflictInit ==
    /\ \E size \in ConflictGridSizes :
         \E at \in [ 0..1 -> Interior(size) ], to \in [ 0..1 -> Interior(size) ] :
           /\ at[0] # at[1] /\ to[0] # to[1]
           /\ \A i \in 0..1 : at[i] # to[i]
           /\ grid = PlaceAt(size, at).g
           /\ elements = [ i \in 0..1 |->
                             [ PlaceAt(size, at).e[i] EXCEPT
                                 !.has_target = TRUE,
                                 !.target_x = to[i][1], !.target_y = to[i][2] ] ]
           /\ target_positions = { to[i] : i \in 0..1 }
    /\ stuck_counter \in [ 0..1 -> 0..MaxStuck ]
    /\ topology \in Topologies /\ movement \in Movements
    /\ algorithm = "astar" /\ control_mode = "independent"
    /\ pc = "moves_this_round"
    /\ current_step = 0 /\ reached_targets = {}
    /\ position_history = [ i \in 0..1 |-> << >> ]
    /\ blocked_elements = {} /\ global_no_movement_counter = 0
    /\ paths = << >> /\ todo = << >> /\ step = 1
    /\ round_moves = << >> /\ n_moves = 0 /\ attempts = << >> /\ trace = {}
    /\ result = NoResult /\ search = NoSearch

\* lines 752-894 applied to the moves the elements planned, in dictionary order:
\* the priority order and first allocation of parallel movement, the goal-first
\* order, and the reservation map
Reservations ==
    /\ pc = "moves_this_round"
    /\ \E want \in [ DOMAIN elements ->
                       UNION { FreeNeighbors(grid, elements[i].x, elements[i].y, topology) :
                               i \in DOMAIN elements } ] :
         /\ \A i \in DOMAIN elements :
              want[i] \in FreeNeighbors(grid, elements[i].x, elements[i].y, topology)
         /\ LET moves == [ k \in 1..Cardinality(DOMAIN elements) |->
                             [ id |-> k - 1, to |-> want[k - 1] ] ]
            IN search' = [ kind |-> "reservations", e |-> elements, wanted |-> moves,
                           kept |-> ReserveMoves(GoalFirstOrder(
                                        elements,
                                        IF movement = "parallel"
                                        THEN ParallelConflictResolution(
                                                 grid, elements, moves, stuck_counter,
                                                 blocked_elements, reached_targets, topology)
                                        ELSE moves)) ]
    /\ pc' = "reserved"
    /\ UNCHANGED << grid, elements, target_positions, algorithm, topology, movement,
                    control_mode, current_step, reached_targets, stuck_counter,
                    position_history, blocked_elements, global_no_movement_counter,
                    paths, todo, step, round_moves, n_moves, attempts, trace, result >>

ConflictNext == Reservations

ConflictSpec == ConflictInit /\ [][ConflictNext]_vars

\* the sort key of lines 876-879
GoalFirstKey(els, m) ==
    << IF m.to = Target(els[m.id]) THEN 0 ELSE 1, distance_to_target(els[m.id]) >>

KeyAtMost(k, l) == k[1] < l[1] \/ (k[1] = l[1] /\ k[2] <= l[2])

\* of the moves wanted for one cell, the one kept comes first in the order
GoalFirstWins(r) ==
    \A k \in DOMAIN r.kept, j \in DOMAIN r.wanted :
        r.wanted[j].to = r.kept[k].to =>
            KeyAtMost(GoalFirstKey(r.e, r.kept[k]), GoalFirstKey(r.e, r.wanted[j]))

\* two elements want the same cell
Contested(r) ==
    \E i, j \in DOMAIN r.wanted : i # j /\ r.wanted[i].to = r.wanted[j].to

Reserved == pc = "reserved" /\ search.kind = "reservations"

\* C23: in independent mode, when several elements want the same cell in a
\* tick, the move committed is the first in the order "lands on the mover's own
\* target", then smaller distance to target, in parallel as in sequential movement.
C23_GoalFirstWinsConflict ==
    Reserved => GoalFirstWins(search)

\* the tick that led to this state was a burst tick: a sequential tick that
\* moved on a step divisible by 5 and called a deadlock helper (lines 919-930)
BurstTick ==
    trace \cap { "resolve_sequential_moore_deadlock", "break_complex_deadlock" } # {}

\* C24: in independent mode with sequential movement a tick commits at most
\* one planned move, the burst ticks of every fifth step excepted.
C24_OneMovePerSequentialTick ==
    (control_mode = "independent" /\ movement = "sequential" /\ ~BurstTick) =>
        Len(round_moves) <= 1

\* some tick up to the present one was a tick in which lines 521-536 attempt the
\* target swap: its step is past 100 and a multiple of the swap frequency
SwapAttemptedByNow ==
    \E s \in 0..current_step : s > swap_after /\ s % swap_frequency(topology) = 0

\* a tick up to the present one was a sequential burst tick, the only place
\* where the independent loop calls the cycle breaking (lines 919-930)
CycleBreakAttemptedByNow ==
    movement = "sequential" /\ n_moves > 0

\* C25: when the no-movement counter reaches 15 the recovery escalates in the
\* order target swap, cycle breaking, emergency relocation, full reassignment:
\* the emergency relocation is called only after a target swap and a cycle
\* breaking were attempted, the reassignment only after the emergency relocation.
C25_RecoveryEscalatesInOrder ==
    /\ "emergency_call" \in trace => (SwapAttemptedByNow /\ CycleBreakAttemptedByNow)
    /\ "reassign" \in trace => "emergency_call" \in trace

\* element i takes part in the decisions of the tick about to run, and has done
\* so in an earlier tick
DecidesAgain(i) ==
    /\ has_target(elements[i]) /\ i \notin reached_targets /\ ~AtTarget(elements[i])
    /\ position_history[i] # << >>

\* the number of consecutive ticks without a change of position that the tick
\* about to run finds for element i
IdleTicks(i) ==
    IF Last(position_history[i]) # Pos(elements[i]) THEN 0 ELSE stuck_counter[i] + 1

\* C26: in every tick of the independent loop the stuck counter of an
\* unsettled element goes up by exactly one when the element stands where it
\* stood a tick before and goes to 0 when it has moved, and an element joins the
\* blocked set only with a counter above 8 (von Neumann) or 10 (Moore).
C26_StuckCounterCountsIdleTicks ==
    [][ (pc = "independent" /\ pc' = "independent") =>
          \A i \in DOMAIN elements :
              DecidesAgain(i) =>
                  /\ stuck_counter'[i] = IdleTicks(i)
                  /\ (i \in blocked_elements' /\ i \notin blocked_elements)
                        => IdleTicks(i) > stuck_threshold(topology) ]_vars

-----------------------------------------------------------------------------
(* Properties of the target swap *)

TargetsChanged(before, after) == { i \in DOMAIN before : Target(after[i]) # Target(before[i]) }

\* b and o have exchanged their targets, which lowered the sum of their distances
ExchangedFor(before, after, b, o) ==
    /\ Target(after[b]) = Target(before[o]) /\ Target(after[o]) = Target(before[b])
    /\ distance_to_target(after[b]) + distance_to_target(after[o])
         < distance_to_target(before[b]) + distance_to_target(before[o])

\* C27: _swap_targets_for_blocked_elements exchanges the targets of one
\* blocked element and one other unsettled element, only when the sum of their
\* distances to target strictly decreases; it returns true exactly when it
\* exchanged; positions and all other targets stay as they were.
C27_SwapExchangesOnePair ==
    (pc = "swapped" /\ search.kind = "swap_targets") =>
        /\ \A i \in DOMAIN elements :
             /\ Pos(elements[i]) = Pos(search.before[i])
             /\ has_target(elements[i]) = has_target(search.before[i])
        /\ search.ok <=> TargetsChanged(search.before, elements) # {}
        /\ search.ok =>
             \E b \in search.blocked, o \in DOMAIN elements \ search.blocked :
                 /\ TargetsChanged(search.before, elements) = { b, o }
                 /\ has_target(search.before[o]) /\ ~AtTarget(search.before[o])
                 /\ ExchangedFor(search.before, elements, b, o)

\* a swap among four elements that left two of them alone
C27_Witness_SwapAmongFour ==
    /\ pc = "swapped" /\ search.kind = "swap_targets" /\ search.ok
    /\ Cardinality(DOMAIN elements) = MaxCycleElements
    /\ Cardinality(TargetsChanged(search.before, elements)) = 2
    /\ Cardinality(search.blocked) >= 2

-----------------------------------------------------------------------------
(* Properties of the choice of adversaries *)

AdversaryGridSizes == { <<5, 12>> }
MaxOthers == 4            \* most elements around the searching element

\* the searching element, element 0: on the bottom rows or in the middle of the grid
SearcherStarts == { <<2, 10>>, <<2, 6>> }

\* the cells around and above the searching element
CellsNear(start) ==
    { <<start[1] - 1, start[2] - 2>>, <<start[1], start[2] - 2>>,
      <<start[1] + 1, start[2] - 2>>, <<start[1] - 1, start[2] - 3>>,
      <<start[1] + 1, start[2] - 1>> }

\* what another element is after: nothing, the cell it stands on, or a cell away
Aims == { "none", "here", "corner", "middle" }

AimOf(aim, p) ==
    IF aim = "here" THEN p
    ELSE IF aim = "corner" THEN <<1, 1>>
    ELSE IF aim = "middle" THEN <<3, 5>>
    ELSE << -1, -1 >>

AdversaryInit ==
    /\ \E size \in AdversaryGridSizes, start \in SearcherStarts, n \in 3..MaxOthers :
         \E at \in [ 1..n -> CellsNear(start) ], to \in [ 1..n -> Aims ] :
           /\ \A i, j \in 1..n : i < j => at[i] # at[j]
           /\ grid = PlaceAt(size, [ k \in 0..n |-> IF k = 0 THEN start ELSE at[k] ]).g
           /\ elements = [ k \in 0..n |->
                             IF k = 0
                             THEN [ x |-> start[1], y |-> start[2], target_x |-> start[1],
                                    target_y |-> start[2] - 3, has_target |-> TRUE ]
                             ELSE [ x |-> at[k][1], y |-> at[k][2],
                                    target_x |-> AimOf(to[k], at[k])[1],
                                    target_y |-> AimOf(to[k], at[k])[2],
                                    has_target |-> to[k] # "none" ] ]
           /\ stuck_counter = [ i \in 0..n |-> 0 ]
           /\ position_history = [ i \in 0..n |-> << >> ]
    /\ target_positions = {}
    /\ algorithm \in { "minimax", "expectimax" } /\ topology = "vonNeumann"
    /\ movement = "sequential" /\ control_mode = "independent"
    /\ pc = "adversaries"
    /\ current_step = 0 /\ reached_targets = {}
    /\ blocked_elements = {} /\ global_no_movement_counter = 0
    /\ paths = << >> /\ todo = << >> /\ step = 1
    /\ round_moves = << >> /\ n_moves = 0 /\ attempts = << >> /\ trace = {}
    /\ result = NoResult /\ search = NoSearch

Found(kind, brp, ids) ==
    /\ search' = [ kind |-> kind, id |-> 0, start |-> Pos(elements[0]),
                   goal |-> Target(elements[0]), brp |-> brp, ids |-> ids ]
    /\ pc' = "found"
    /\ UNCHANGED << grid, elements, algorithm, topology >>
    /\ SearchUnchanged

\* find_potential_adversaries as minimax_pathfind calls it, lines 46 and 73
FindPotentialAdversaries ==
    /\ pc = "adversaries" /\ algorithm = "minimax"
    /\ Found("find_potential_adversaries", elements[0].y >= bottom_row_from,
             find_potential_adversaries(elements, 0, Pos(elements[0]), Target(elements[0]),
                                        elements[0].y >= bottom_row_from))

\* find_interfering_elements as expectimax_pathfind calls it, lines 48 and 94
FindInterferingElements ==
    /\ pc = "adversaries" /\ algorithm = "expectimax"
    /\ Found("find_interfering_elements", is_bottom_row(grid, elements[0].y),
             find_interfering_elements(elements, 0, Pos(elements[0]), Target(elements[0]),
                                       is_bottom_row(grid, elements[0].y)))

AdversaryNext == FindPotentialAdversaries \/ FindInterferingElements

AdversarySpec == AdversaryInit /\ [][AdversaryNext]_vars

\* the score the list of a call is sorted by
ScoreOf(r, o) ==
    IF r.kind = "find_potential_adversaries"
    THEN ThreatOf(elements[o], r.start, r.goal, r.brp, SearchBox(r.start, r.goal, r.brp))
    ELSE calculate_interference_score(r.start, r.goal, Pos(elements[o]),
                                      Target(elements[o]), r.brp)

\* the other elements that have a target they have not reached
OffTarget(id) ==
    { o \in DOMAIN elements \ {id} : has_target(elements[o]) /\ ~AtTarget(elements[o]) }

\* C28: find_potential_adversaries and find_interfering_elements return at
\* most 2 ids (3 for a bottom-row element), never the searching element, only
\* elements with a target they have not reached, by non-increasing score.
C28_AdversariesAreFewUnsettledAndSorted ==
    pc = "found" =>
        /\ Len(search.ids) <= (IF search.brp THEN 3 ELSE 2)
        /\ \A k \in DOMAIN search.ids : search.ids[k] \in OffTarget(search.id)
        /\ \A k, l \in DOMAIN search.ids :
             k < l => /\ search.ids[k] # search.ids[l]
                      /\ ScoreOf(search, search.ids[k]) >= ScoreOf(search, search.ids[l])

\* more unsettled elements around than the list may hold, of different scores
C28_Witness_ListCut ==
    /\ pc = "found" /\ ~search.brp /\ search.kind = "find_potential_adversaries"
    /\ Len(search.ids) = 2 /\ Cardinality(OffTarget(0)) > 2
    /\ ScoreOf(search, search.ids[1]) > ScoreOf(search, search.ids[2])

-----------------------------------------------------------------------------
(* Properties of the planning order of the centralized mode *)

OrderGridSizes == { <<3, 5>>, <<4, 4>>, <<4, 5>> }
MaxOrdered == 3           \* most elements put in order

\* initialize_elements(n) with more elements than the bottom row holds, and a
\* target shape of as many cells
OrderInit ==
    /\ \E size \in OrderGridSizes, n \in 2..MaxOrdered :
         /\ n <= (size[1] - 2 * boundary_size) * (size[2] - 2 * boundary_size)
         /\ grid = initialize_elements(size[1], size[2], n).g
         /\ elements = initialize_elements(size[1], size[2], n).e
         /\ \E shape \in SUBSET Interior(size) :
              /\ Cardinality(shape) = n
              /\ target_positions = set_target_shape(grid, shape)
         /\ stuck_counter = [ i \in 0..(n - 1) |-> 0 ]
         /\ position_history = [ i \in 0..(n - 1) |-> << >> ]
    /\ algorithm = "astar" /\ topology = "vonNeumann"
    /\ movement = "sequential" /\ control_mode = "centralized"
    /\ pc = "idle"
    /\ current_step = 0 /\ reached_targets = {}
    /\ blocked_elements = {} /\ global_no_movement_counter = 0
    /\ paths = << >> /\ todo = << >> /\ step = 1
    /\ round_moves = << >> /\ n_moves = 0 /\ attempts = << >> /\ trace = {}
    /\ result = NoResult /\ search = NoSearch

OrderSpec == OrderInit /\ [][transform]_vars

\* the planning order has just been made and no element has walked yet
OrderMade == pc = "centralized" /\ trace = { "assign_targets" }

\* the element of the larger y is the one nearer the spawn edge: initialize_elements
\* fills the grid from the row of the largest y
NearerSpawnEdge(a, b) == a.y > b.y

-----------------------------------------------------------------------------
(* Properties of the evaluation of a state *)

EvalGridSizes == { <<12, 12>>, <<5, 5>> }

\* where a second element stands, seen from the evaluated one
Besides == { <<0, -1>>, <<1, 0>> }

\* element 0 anywhere inside the walls, its goal anywhere else inside them,
\* and possibly an element 1 next to it that is after the corner cell
EvalInit ==
    /\ \E size \in EvalGridSizes :
         \E p \in Interior(size), q \in Interior(size), d \in Besides \cup { <<0, 0>> } :
           /\ p # q
           /\ d # <<0, 0>> => <<p[1] + d[1], p[2] + d[2]>> \in Interior(size) \ { <<1, 1>> }
           /\ LET at == IF d = <<0, 0>> THEN [ k \in {0} |-> p ]
                        ELSE [ k \in 0..1 |-> IF k = 0 THEN p
                                              ELSE <<p[1] + d[1], p[2] + d[2]>> ]
              IN /\ grid = PlaceAt(size, at).g
                 /\ elements = [ k \in DOMAIN at |->
                                   [ x |-> at[k][1], y |-> at[k][2],
                                     target_x |-> IF k = 0 THEN q[1] ELSE 1,
                                     target_y |-> IF k = 0 THEN q[2] ELSE 1,
                                     has_target |-> TRUE ] ]
                 /\ stuck_counter = [ i \in DOMAIN at |-> 0 ]
                 /\ position_history = [ i \in DOMAIN at |-> << >> ]
    /\ target_positions = {}
    /\ algorithm \in { "minimax", "expectimax" } /\ topology = "vonNeumann"
    /\ movement = "sequential" /\ control_mode = "independent"
    /\ pc = "evaluate"
    /\ current_step = 0 /\ reached_targets = {}
    /\ blocked_elements = {} /\ global_no_movement_counter = 0
    /\ paths = << >> /\ todo = << >> /\ step = 1
    /\ round_moves = << >> /\ n_moves = 0 /\ attempts = << >> /\ trace = {}
    /\ result = NoResult /\ search = NoSearch

Evaluated(kind, brp, raised, value) ==
    /\ search' = [ kind |-> kind, id |-> 0, goal |-> Target(elements[0]), brp |-> brp,
                   raised |-> raised, value |-> value ]
    /\ pc' = "evaluated"
    /\ UNCHANGED << grid, elements, algorithm, topology >>
    /\ SearchUnchanged

\* minimax.evaluate_state at a leaf of a search: bottom_row_priority is that of
\* the cell the search started from, at most MaxDepth moves away
MinimaxEvaluate ==
    /\ pc = "evaluate" /\ algorithm = "minimax"
    /\ \E brp \in BOOLEAN :
         /\ brp => elements[0].y + MaxDepth >= bottom_row_from
         /\ Evaluated("minimax", brp, FALSE,
                      minimax_evaluate_state(
                          World(grid, elements), 0, Target(elements[0]),
                          find_potential_adversaries(elements, 0, Pos(elements[0]),
                                                     Target(elements[0]), brp), brp))

\* expectimax.evaluate_state at a leaf of a search
ExpectimaxEvaluate ==
    /\ pc = "evaluate" /\ algorithm = "expectimax"
    /\ \E bottom \in BOOLEAN :
         /\ bottom => is_bottom_row(grid, elements[0].y + MaxDepth)
         /\ LET r == expectimax_evaluate_state(
                         World(grid, elements), 0, Target(elements[0]),
                         find_interfering_elements(elements, 0, Pos(elements[0]),
                                                   Target(elements[0]), bottom), bottom)
            IN Evaluated("expectimax", bottom, r.raised, r.v.n \div r.v.d)

EvalNext == MinimaxEvaluate \/ ExpectimaxEvaluate

EvalSpec == EvalInit /\ [][EvalNext]_vars

\* C30: the goal value 1000 is strictly greater than evaluate_state(state) for
\* every state in which the element is not at its goal, for the minimax and
\* the expectimax evaluation, bottom-row elements included.
C30_GoalValueDominatesEvaluation ==
    (pc = "evaluated" /\ Pos(elements[0]) # search.goal) =>
        ~search.raised /\ search.value < goal_value

-----------------------------------------------------------------------------
(* Properties of the move log *)

\* the record of the move log that tells an accepted call as it happened
RecordOf(a) == [ agentId |-> a.id, from |-> a.from, to |-> a.to ]

\* C31: replaying the move log reproduces the run: each logged move's "from" is
\* the cell the agent occupied immediately before the move, its "to" the cell
\* it occupied immediately after, and a move is logged if and only if it was
\* committed on the grid.
C31_MoveLogReplaysTheRun ==
    /\ Len(round_moves) = Len(Committed(attempts))
    /\ \A k \in DOMAIN round_moves : round_moves[k] = RecordOf(Committed(attempts)[k])

ParallelGridSizes == { <<5, 5>> }
MaxParallel == 2          \* elements of a run whose paths may cross

\* initialize_elements(2) on a grid with room to go round one another, and a
\* target shape of two cells
ParallelInit ==
    /\ \E size \in ParallelGridSizes :
         /\ grid = initialize_elements(size[1], size[2], MaxParallel).g
         /\ elements = initialize_elements(size[1], size[2], MaxParallel).e
         /\ \E shape \in SUBSET Interior(size) :
              /\ Cardinality(shape) = MaxParallel
              /\ target_positions = set_target_shape(grid, shape)
    /\ stuck_counter = [ i \in 0..(MaxParallel - 1) |-> 0 ]
    /\ position_history = [ i \in 0..(MaxParallel - 1) |-> << >> ]
    /\ algorithm = "astar" /\ topology = "vonNeumann"
    /\ movement = "sequential" /\ control_mode = "centralized"
    /\ pc = "idle"
    /\ current_step = 0 /\ reached_targets = {}
    /\ blocked_elements = {} /\ global_no_movement_counter = 0
    /\ paths = << >> /\ todo = << >> /\ step = 1
    /\ round_moves = << >> /\ n_moves = 0 /\ attempts = << >> /\ trace = {}
    /\ result = NoResult /\ search = NoSearch

ParallelSpec == ParallelInit /\ [][ScenarioNext]_vars

\* a round of the centralized parallel execution has just been made
RoundMade == control_mode = "centralized" /\ movement = "parallel" /\ "round" \in trace

\* C32: in centralized mode with parallel movement every committed move takes
\* an agent to a cell adjacent, under the topology of the run, to the cell it
\* occupied immediately before, also after a skipped or failed move.
C32_ParallelMovesAreAdjacent ==
    RoundMade =>
        \A k \in DOMAIN attempts :
            attempts[k].ok =>
                attempts[k].to \in get_neighbors(grid, attempts[k].from[1],
                                                 attempts[k].from[2], topology)

-----------------------------------------------------------------------------
(* Properties of the searches on the bottom rows *)

\* expectimax_pathfind was called for an element, from its own cell towards an
\* admissible goal
ValidExpectimaxCall ==
    /\ pc = "searched" /\ search.kind = "expectimax_pathfind"
    /\ search.id \in DOMAIN search.before.e
    /\ search.start = Pos(search.before.e[search.id])
    /\ ~Refused(search.before.g, search.goal)

\* C33: expectimax_pathfind returns a (path, nodes_explored) pair without
\* raising for every valid configuration, the element of the bottom 3 rows that
\* has legal moves but no legal upward move included, and leaves the agent at
\* its original cell.
C33_ExpectimaxReturnsWithoutRaising ==
    ValidExpectimaxCall =>
        /\ ~search.raised
        /\ Pos(elements[search.id]) = search.start

\* minimax_pathfind chose its first move by the search of lines 103-131
ChosenBySearch ==
    /\ pc = "searched" /\ search.kind = "minimax_pathfind" /\ ~search.raised
    /\ search.via \in { "first_step", "astar_tail" }

\* the first move of the same root loop when no cut-off is taken in any subtree
UnprunedChoice(w, id, start, goal, order, max_depth) ==
    MinimaxRootMoves(w, [ id |-> id, max_depth |-> minimax_depth(w.e, max_depth),
                          order |-> order, goal |-> goal,
                          brp |-> w.e[id].y >= bottom_row_from, prune |-> FALSE ],
                     find_potential_adversaries(w.e, id, start, goal,
                                                w.e[id].y >= bottom_row_from),
                     start, Pos(w.e[id]), free_moves(w.g, start, order), NoBest).best.move

\* C34: the first move minimax_pathfind selects by search, alpha carried from
\* one root candidate to the next and the upward bonus added after the subtree
\* returns, is the move selected when every subtree is evaluated without
\* pruning.
C34_RootChoiceUnaffectedByPruning ==
    ChosenBySearch =>
        search.path[2] = UnprunedChoice(search.before, search.id, search.start,
                                        search.goal, search.order, search.max_depth)

\* the interfering elements the root of the search passes down for element id
InterferingAt(w, id, goal) ==
    find_interfering_elements(w.e, id, Pos(w.e[id]), goal, is_bottom_row(w.g, w.e[id].y))

\* expectimax_value was called as expectimax_pathfind calls it for a candidate
\* first move (depth 1, the element standing on the candidate cell), with the
\* default max_depth and at least one interfering element
CandidateValued ==
    /\ pc = "searched" /\ search.kind = "expectimax_value" /\ ~search.raised
    /\ search.nodes = 1 /\ search.max_depth = 2
    /\ InterferingAt(search.before, search.id, search.goal) # << >>

\* the value of the same position when the recursion enters it at the chance
\* node of the first interfering element
ThroughChanceNode(w, id, goal, order, max_depth) ==
    expectimax_value(w, [ id |-> id, max_depth |-> max_depth, order |-> order,
                          goal |-> goal, bottom |-> is_bottom_row(w.g, w.e[id].y) ],
                     InterferingAt(w, id, goal), 1, "chance").v

\* C35: with the default max_depth of 2 and at least one interfering element,
\* the value of a candidate first move is computed through a chance node of the
\* highest-scored interfering element before the agent's next MAX node or the
\* leaf evaluation.
C35_CandidateValueGoesThroughChanceNode ==
    CandidateValued =>
        search.value = ThroughChanceNode(search.before, search.id, search.goal,
                                         search.order, search.max_depth)

-----------------------------------------------------------------------------
(* Properties of the counters and histories of the independent loop *)

\* a tick of the independent loop after which the loop goes on
TickTaken == pc = "independent" /\ pc' = "independent"

\* C36: the global no-movement counter equals the number of most recent
\* consecutive ticks in which no move was committed on the grid: a tick that
\* commits a move sets it to 0, a tick that commits none adds 1 to it, unless
\* the targets were reassigned in that tick.
C36_NoMovementCounterCountsIdleTicks ==
    [][ TickTaken =>
          IF Committed(attempts') # << >>
          THEN global_no_movement_counter' = 0
          ELSE \/ global_no_movement_counter' = global_no_movement_counter + 1
               \/ global_no_movement_counter' = 0 /\ "reassign" \in trace' ]_vars

\* the first move of a run was committed after ticks that committed none, and
\* the counter is back at 0
C36_Witness_ResetAfterIdleTicks ==
    /\ pc = "independent" /\ control_mode = "independent"
    /\ current_step >= 3 /\ n_moves = 1 /\ Len(Committed(attempts)) = 1
    /\ global_no_movement_counter = 0

\* the independent loop stands between two ticks
BetweenTicks == pc = "independent" /\ control_mode = "independent" /\ current_step > 0

\* the elements that have a position history
WithHistory == { i \in DOMAIN position_history : position_history[i] # << >> }

\* no two neighbouring entries of the sequence are equal
NoRepeat(hist) == \A k \in 1..(Len(hist) - 1) : hist[k] # hist[k + 1]

\* C37: at the end of each tick of the independent loop every agent's position
\* history holds at most 8 entries, no two consecutive entries are equal, and
\* its last entry is the agent's current cell.
C37_HistoryEndsAtCurrentCell ==
    BetweenTicks =>
        \A i \in WithHistory :
            /\ Len(position_history[i]) <= history_length
            /\ NoRepeat(position_history[i])
            /\ Last(position_history[i]) = Pos(elements[i])

-----------------------------------------------------------------------------
(* Properties of the result of a centralized run *)

\* success_rate = 1.0: the quotient of line 249 is 1.0 exactly when both counts
\* are equal, and the rate is 0 when no element has a target
FullRate(r) == r.total > 0 /\ r.at_target = r.total

\* C38: for every centralized run the returned success flag is true if and only
\* if the returned success_rate equals 1.0, including the run in which no
\* element has a target.
C38_CentralizedSuccessIffFullRate ==
    (pc = "done" /\ control_mode = "centralized" /\ result.returned) =>
        (result.success <=> FullRate(result))

====
